---- MODULE Spec2Model ----
(***************************************************************************)
(* Proof-Carrying Capabilities (csp_gateway/pccap.py): scope matching,     *)
(* token signing, the in-memory store, enforce_pccap and the policy-engine *)
(* adapter (mint / evaluate_with_pccap / revoke / cleanup).                *)
(*                                                                         *)
(* Python values are modelled as follows.                                  *)
(*   - A str that is used as a path is the sequence str.split("/") gives:  *)
(*     "/tmp/x" is <<"", "tmp", "x">>, "" is <<"">>, "/" is <<"", "">>.    *)
(*     The map is a bijection between strings and non-empty sequences of   *)
(*     slash-free segments.  Any other str is a TLA+ string.               *)
(*   - An optional value (T | None, dict.get) is <<>> for None, <<v>>      *)
(*     otherwise.                                                          *)
(*   - A content/data value is [bin, widths]: bytes (bin) of Len(widths)   *)
(*     bytes, or a str whose i-th character takes widths[i] bytes in UTF-8;*)
(*     width 0 is a lone surrogate (json.loads gives one for "\ud800"),    *)
(*     which str.encode() refuses with UnicodeEncodeError.                 *)
(*   - An exception that leaves a call is the call's result with           *)
(*     code = RAISED and the exception's name as the reason.               *)
(*   - Signatures are ASCII strings.                                       *)
(*   - Timestamps are whole seconds.                                       *)
(***************************************************************************)
EXTENDS Integers, Sequences, FiniteSets, TLC

VARIABLES
    tokens,     \* PCCapStore._tokens: sequence of token records in dict (insertion) order
    used,       \* PCCapStore._used_tokens: set of token ids
    now,        \* time.time()
    nextId,     \* number of tokens minted so far (source of fresh ids and nonces)
    calls,      \* per caller: the evaluate_with_pccap call in flight (pc and locals)
    res,        \* per caller: the verdict of its last completed call, with what it observed
    hist,       \* per token id: the number of allow verdicts given with it (capped);
                \* under SpecTok, the number of assignments made to its fields (capped)
    signedAs,   \* per token id: the token value as it was signed, and the ttl asked for
    expiredSeen \* the token value enforce_pccap last denied as expired (a set of at most one)

vars == <<tokens, used, now, nextId, calls, res, hist, signedAs, expiredSeen>>

----------------------------------------------------------------------------
(* Bounds *)

MaxTokens == 2
MaxTime == 1
\* fields of one token object that differ from what was signed, at any one time
MaxTampered == 1
MaxConcTokens == 1
\* the max_bytes of the write scope
MaxBytes == 4

----------------------------------------------------------------------------
(* Optional values *)

None == <<>>
Some(v) == <<v>>

----------------------------------------------------------------------------
(* os.path / pathlib on POSIX, over split strings *)

EmptyStr == <<"">>

\* os.getcwd(): the process working directory, "/srv"
Cwd == <<"", "srv">>

startswith_slashes(path, n) ==
    Len(path) > n /\ \A i \in 1..n : path[i] = ""

\* posixpath.isabs
isabs(path) == startswith_slashes(path, 1)

\* ".." in PurePath(text).parts: PurePosixPath drops "" and "." and keeps ".."
has_dotdot_part(path) == \E i \in 1..Len(path) : path[i] = ".."

RECURSIVE norm_comps(_, _, _)
norm_comps(comps, new_comps, initial_slashes) ==
    IF comps = <<>> THEN new_comps
    ELSE LET comp == Head(comps)
             rest == Tail(comps)
             n    == Len(new_comps)
         IN  IF comp \in {"", "."}
             THEN norm_comps(rest, new_comps, initial_slashes)
             ELSE IF \/ comp /= ".."
                     \/ (initial_slashes = 0 /\ n = 0)
                     \/ (n > 0 /\ new_comps[n] = "..")
             THEN norm_comps(rest, Append(new_comps, comp), initial_slashes)
             ELSE IF n > 0
             THEN norm_comps(rest, SubSeq(new_comps, 1, n - 1), initial_slashes)
             ELSE norm_comps(rest, new_comps, initial_slashes)

\* posixpath.normpath
normpath(path) ==
    IF path = EmptyStr THEN <<".">>
    ELSE LET initial_slashes ==
                 IF ~startswith_slashes(path, 1) THEN 0
                 ELSE IF startswith_slashes(path, 2) /\ ~startswith_slashes(path, 3)
                      THEN 2 ELSE 1
             comps == norm_comps(path, <<>>, initial_slashes)
         IN  IF initial_slashes = 0
             THEN (IF comps = <<>> THEN <<".">> ELSE comps)
             ELSE [i \in 1..initial_slashes |-> ""]
                      \o (IF comps = <<>> THEN <<"">> ELSE comps)

\* posixpath.abspath: join(cwd, path) when relative, then normpath
abspath(path) ==
    IF isabs(path) THEN normpath(path) ELSE normpath(Cwd \o path)

RECURSIVE common_prefix(_, _)
common_prefix(s1, s2) ==
    IF s1 = <<>> \/ s2 = <<>> \/ Head(s1) /= Head(s2) THEN <<>>
    ELSE <<Head(s1)>> \o common_prefix(Tail(s1), Tail(s2))

keep_comps(path) ==
    SelectSeq(path, LAMBDA c : c /= "" /\ c /= ".")

\* posixpath.commonpath([a, b]): None stands for the ValueError raised when
\* absolute and relative paths are mixed
commonpath(a, b) ==
    IF isabs(a) /= isabs(b) THEN None
    ELSE LET common == common_prefix(keep_comps(a), keep_comps(b))
         IN  IF isabs(a)
             THEN Some(<<"">> \o (IF common = <<>> THEN <<"">> ELSE common))
             ELSE Some(IF common = <<>> THEN <<"">> ELSE common)

----------------------------------------------------------------------------
(* PCCapScope *)

\* dict.get(key)
get(d, key) == IF key \in DOMAIN d THEN Some(d[key]) ELSE None

\* bool(x) of an optional str held as a split string
truthy_path(x) == x /= None /\ x[1] /= EmptyStr

\* bool(x) of an optional content value
truthy_content(x) == x /= None /\ x[1].widths /= <<>>

RECURSIVE sum_seq(_)
sum_seq(s) == IF s = <<>> THEN 0 ELSE Head(s) + sum_seq(Tail(s))

\* str(content).encode() succeeds: no character is a lone surrogate
encodes(content) ==
    content.bin \/ \A i \in 1..Len(content.widths) : content.widths[i] > 0

\* len(content) for bytes, len(str(content).encode()) otherwise
size_bytes(content) ==
    IF content.bin THEN Len(content.widths) ELSE sum_seq(content.widths)

\* arguments.get("path") or arguments.get("file_path") or arguments.get("target")
path_argument(arguments) ==
    IF truthy_path(get(arguments, "path")) THEN get(arguments, "path")
    ELSE IF truthy_path(get(arguments, "file_path")) THEN get(arguments, "file_path")
    ELSE get(arguments, "target")

\* arguments.get("content") or arguments.get("data")
content_argument(arguments) ==
    IF truthy_content(get(arguments, "content")) THEN get(arguments, "content")
    ELSE get(arguments, "data")

\* a path-prefix block without the two traversal tests
path_check_by_containment_only(scope, arguments) ==
    LET path == path_argument(arguments) IN
    IF scope.path_prefix = None \/ ~truthy_path(path) THEN None
    ELSE LET requested_abs == abspath(normpath(path[1]))
             allowed_abs   == abspath(normpath(scope.path_prefix[1]))
         IN  IF commonpath(requested_abs, allowed_abs) /= Some(allowed_abs)
             THEN Some("path not under allowed prefix")
             ELSE None

\* the path-prefix block of matches_request: the reason for rejecting, or None
path_check(scope, arguments) ==
    LET path == path_argument(arguments) IN
    IF scope.path_prefix = None \/ ~truthy_path(path) THEN None
    ELSE LET path_text  == path[1]
             normalized == normpath(path_text)
         IN  IF has_dotdot_part(path_text) THEN Some("path traversal detected")
             ELSE IF has_dotdot_part(normalized) THEN Some("path traversal detected")
             ELSE LET requested_abs == abspath(normalized)
                      allowed_abs   == abspath(normpath(scope.path_prefix[1]))
                  IN  IF commonpath(requested_abs, allowed_abs) /= Some(allowed_abs)
                      THEN Some("path not under allowed prefix")
                      ELSE None

\* the max_bytes block of matches_request
max_bytes_check(scope, arguments) ==
    LET content == content_argument(arguments) IN
    IF scope.max_bytes = None \/ content = None THEN None
    ELSE IF size_bytes(content[1]) > scope.max_bytes[1]
         THEN Some("content exceeds max_bytes")
         ELSE None

\* the max_bytes block of matches_request is left by UnicodeEncodeError
max_bytes_raises(scope, arguments) ==
    LET content == content_argument(arguments) IN
    scope.max_bytes /= None /\ content /= None /\ ~encodes(content[1])

\* the allowed_args loop of matches_request
allowed_args_check(scope, arguments) ==
    IF \E key \in DOMAIN scope.allowed_args :
           get(arguments, key) /= Some(scope.allowed_args[key])
    THEN Some("arg mismatch")
    ELSE None

\* (matches, reason), or the exception that leaves the call
Matched(matches, reason) == [matches |-> matches, reason |-> reason, raised |-> None]
Raises(exception) == [matches |-> FALSE, reason |-> None, raised |-> Some(exception)]

\* a matches_request that compares the tool name after the other constraints
matches_request_tool_last(scope, tool_name, arguments) ==
    IF path_check(scope, arguments) /= None
    THEN Matched(FALSE, path_check(scope, arguments))
    ELSE IF max_bytes_raises(scope, arguments)
    THEN Raises("UnicodeEncodeError")
    ELSE IF max_bytes_check(scope, arguments) /= None
    THEN Matched(FALSE, max_bytes_check(scope, arguments))
    ELSE IF allowed_args_check(scope, arguments) /= None
    THEN Matched(FALSE, allowed_args_check(scope, arguments))
    ELSE IF tool_name /= scope.tool_name
    THEN Matched(FALSE, Some("tool mismatch"))
    ELSE Matched(TRUE, None)

\* PCCapScope.matches_request -> (matches, reason)
matches_request(scope, tool_name, arguments) ==
    IF tool_name /= scope.tool_name
    THEN Matched(FALSE, Some("tool mismatch"))
    ELSE IF path_check(scope, arguments) /= None
    THEN Matched(FALSE, path_check(scope, arguments))
    ELSE IF max_bytes_raises(scope, arguments)
    THEN Raises("UnicodeEncodeError")
    ELSE IF max_bytes_check(scope, arguments) /= None
    THEN Matched(FALSE, max_bytes_check(scope, arguments))
    ELSE IF allowed_args_check(scope, arguments) /= None
    THEN Matched(FALSE, allowed_args_check(scope, arguments))
    ELSE Matched(TRUE, None)

----------------------------------------------------------------------------
(* PCCapToken, canonical bytes, Keyring *)

\* json.dumps of a str / of a split string / of None-or-value / of numbers
json_str(s) == "\"" \o s \o "\""

RECURSIVE join_slash(_)
join_slash(path) ==
    IF Len(path) = 1 THEN path[1] ELSE path[1] \o "/" \o join_slash(Tail(path))

json_bool(b) == IF b THEN "true" ELSE "false"
json_int(n) == ToString(n)
json_float(x) == ToString(x) \o ".0"
json_opt_str(x) == IF x = None THEN "null" ELSE json_str(x[1])
json_opt_path(x) == IF x = None THEN "null" ELSE json_str(join_slash(x[1]))
json_opt_int(x) == IF x = None THEN "null" ELSE json_int(x[1])

\* the keys allowed_args may hold, in the order sort_keys=True emits them
ArgKeyOrder == <<"mode", "recursive">>

RECURSIVE json_members(_, _)
json_members(d, keys) ==
    IF keys = <<>> THEN ""
    ELSE LET k    == Head(keys)
             rest == json_members(d, Tail(keys))
         IN  IF k \notin DOMAIN d THEN rest
             ELSE json_str(k) \o ":" \o json_str(d[k])
                      \o (IF rest = "" THEN "" ELSE "," \o rest)

\* json.dumps(scope.to_dict(), sort_keys=True, separators=(",", ":"))
json_scope(scope) ==
    "{\"allowed_args\":{" \o json_members(scope.allowed_args, ArgKeyOrder) \o "}"
    \o ",\"max_bytes\":" \o json_opt_int(scope.max_bytes)
    \o ",\"path_prefix\":" \o json_opt_path(scope.path_prefix)
    \o ",\"tool_name\":" \o json_str(scope.tool_name) \o "}"

\* a canonical form that leaves the nonce out
canonical_bytes_without_nonce(token) ==
    "{\"algorithm\":" \o json_str(token.algorithm)
    \o ",\"expires_at\":" \o json_float(token.expires_at)
    \o ",\"issued_at\":" \o json_float(token.issued_at)
    \o ",\"issued_by\":" \o json_str(token.issued_by)
    \o ",\"policy_id\":" \o json_opt_str(token.policy_id)
    \o ",\"principal_sub\":" \o json_str(token.principal_sub)
    \o ",\"scope\":" \o json_scope(token.scope)
    \o ",\"single_use\":" \o json_bool(token.single_use)
    \o ",\"token_id\":" \o json_str(token.token_id) \o "}"

\* PCCapToken.canonical_bytes:
\* json.dumps(to_dict(include_signature=False), sort_keys=True, separators=(",", ":"))
canonical_bytes(token) ==
    "{\"algorithm\":" \o json_str(token.algorithm)
    \o ",\"expires_at\":" \o json_float(token.expires_at)
    \o ",\"issued_at\":" \o json_float(token.issued_at)
    \o ",\"issued_by\":" \o json_str(token.issued_by)
    \o ",\"nonce\":" \o json_opt_str(token.nonce)
    \o ",\"policy_id\":" \o json_opt_str(token.policy_id)
    \o ",\"principal_sub\":" \o json_str(token.principal_sub)
    \o ",\"scope\":" \o json_scope(token.scope)
    \o ",\"single_use\":" \o json_bool(token.single_use)
    \o ",\"token_id\":" \o json_str(token.token_id) \o "}"

\* dict.get(key, default)
dict_get(d, key, default) == IF key \in DOMAIN d THEN d[key] ELSE default

\* PCCapScope.to_dict
scope_to_dict(scope) ==
    [tool_name    |-> scope.tool_name,
     allowed_args |-> scope.allowed_args,
     path_prefix  |-> scope.path_prefix,
     max_bytes    |-> scope.max_bytes]

\* PCCapScope.from_dict
scope_from_dict(d) ==
    [tool_name    |-> d["tool_name"],
     allowed_args |-> dict_get(d, "allowed_args", <<>>),
     path_prefix  |-> dict_get(d, "path_prefix", None),
     max_bytes    |-> dict_get(d, "max_bytes", None)]

\* PCCapToken.to_dict(include_signature); a member of SignatureAlgorithm is
\* the string that is its value
to_dict(token, include_signature) ==
    LET d == [token_id      |-> token.token_id,
              principal_sub |-> token.principal_sub,
              scope         |-> scope_to_dict(token.scope),
              issued_at     |-> token.issued_at,
              expires_at    |-> token.expires_at,
              issued_by     |-> token.issued_by,
              policy_id     |-> token.policy_id,
              single_use    |-> token.single_use,
              nonce         |-> token.nonce,
              algorithm     |-> token.algorithm]
    IN  IF include_signature /\ token.signature /= None /\ token.signature /= Some("")
        THEN d @@ ("signature" :> token.signature)
        ELSE d

\* a from_dict that gives every token the default single_use
from_dict_default_single_use(d) ==
    [token_id      |-> d["token_id"],
     principal_sub |-> d["principal_sub"],
     scope         |-> scope_from_dict(d["scope"]),
     issued_at     |-> d["issued_at"],
     expires_at    |-> d["expires_at"],
     issued_by     |-> d["issued_by"],
     policy_id     |-> dict_get(d, "policy_id", None),
     single_use    |-> TRUE,
     nonce         |-> dict_get(d, "nonce", None),
     signature     |-> dict_get(d, "signature", None),
     algorithm     |-> dict_get(d, "algorithm", "HS256")]

\* PCCapToken.from_dict
from_dict(d) ==
    [token_id      |-> d["token_id"],
     principal_sub |-> d["principal_sub"],
     scope         |-> scope_from_dict(d["scope"]),
     issued_at     |-> d["issued_at"],
     expires_at    |-> d["expires_at"],
     issued_by     |-> d["issued_by"],
     policy_id     |-> dict_get(d, "policy_id", None),
     single_use    |-> dict_get(d, "single_use", TRUE),
     nonce         |-> dict_get(d, "nonce", None),
     signature     |-> dict_get(d, "signature", None),
     algorithm     |-> dict_get(d, "algorithm", "HS256")]

\* an expiry test that lets a token live through the instant expires_at
is_expired_after(token, t) == t > token.expires_at

\* an expiry test that takes expires_at = issued_at (a zero lifetime) to mean
\* that the token does not expire
is_expired_unless_zero_ttl(token, t) ==
    token.expires_at /= token.issued_at /\ t >= token.expires_at

\* PCCapToken.is_expired(now)
is_expired(token, t) == t >= token.expires_at

\* Keyring.sign: base64(HMAC-SHA256(secret, canonical bytes)); the MAC is
\* modelled as a collision-free keyed function of its message
sign(secret, token) == "hmac[" \o secret \o "](" \o canonical_bytes(token) \o ")"

\* a verify that accepts any signature that is present
verify_presence(secret, token) ==
    ~(token.signature = None \/ token.signature = Some(""))

\* Keyring.verify
verify(secret, token) ==
    IF token.signature = None \/ token.signature = Some("") THEN FALSE
    ELSE token.signature = Some(sign(secret, token))

----------------------------------------------------------------------------
(* enforce_pccap *)

DENY_PCCAP_EXPIRED == "DENY_PCCAP_EXPIRED"
DENY_PCCAP_SCOPE_MISMATCH == "DENY_PCCAP_SCOPE_MISMATCH"
DENY_PCCAP_SIGNATURE_INVALID == "DENY_PCCAP_SIGNATURE_INVALID"
DENY_PCCAP_PRINCIPAL_MISMATCH == "DENY_PCCAP_PRINCIPAL_MISMATCH"
DENY_PCCAP_REPLAY == "DENY_PCCAP_REPLAY"
ALLOW_PCCAP_VALID == "ALLOW_PCCAP_VALID"
DENY_NO_PCCAP == "DENY_NO_PCCAP"
DENY_PCCAP_NOT_FOUND == "DENY_PCCAP_NOT_FOUND"

Verdict(allowed, reason, code) ==
    [allowed |-> allowed, reason |-> reason, code |-> code]

\* the call is left by an exception instead of returning a verdict
RAISED == "raised"
Fault(exception) == [allowed |-> FALSE, reason |-> exception, code |-> RAISED]

\* an enforce that checks the principal binding before the signature
enforce_pccap_principal_first(principal, tool_name, arguments, token, secret, t) ==
    IF is_expired(token, t)
    THEN Verdict(FALSE, "expired", DENY_PCCAP_EXPIRED)
    ELSE IF token.principal_sub /= principal
    THEN Verdict(FALSE, "principal mismatch", DENY_PCCAP_PRINCIPAL_MISMATCH)
    ELSE IF ~verify(secret, token)
    THEN Verdict(FALSE, "invalid signature", DENY_PCCAP_SIGNATURE_INVALID)
    ELSE IF ~matches_request(token.scope, tool_name, arguments).matches
    THEN Verdict(FALSE, matches_request(token.scope, tool_name, arguments).reason[1],
                 DENY_PCCAP_SCOPE_MISMATCH)
    ELSE Verdict(TRUE, "valid", ALLOW_PCCAP_VALID)

\* enforce_pccap(principal, tool_name, arguments, token, keyring), with the
\* value t that time.time() returns inside token.is_expired()
enforce_pccap(principal, tool_name, arguments, token, secret, t) ==
    IF is_expired(token, t)
    THEN Verdict(FALSE, "expired", DENY_PCCAP_EXPIRED)
    ELSE IF ~verify(secret, token)
    THEN Verdict(FALSE, "invalid signature", DENY_PCCAP_SIGNATURE_INVALID)
    ELSE IF token.principal_sub /= principal
    THEN Verdict(FALSE, "principal mismatch", DENY_PCCAP_PRINCIPAL_MISMATCH)
    ELSE IF matches_request(token.scope, tool_name, arguments).raised /= None
    THEN Fault(matches_request(token.scope, tool_name, arguments).raised[1])
    ELSE IF ~matches_request(token.scope, tool_name, arguments).matches
    THEN Verdict(FALSE, matches_request(token.scope, tool_name, arguments).reason[1],
                 DENY_PCCAP_SCOPE_MISMATCH)
    ELSE Verdict(TRUE, "valid", ALLOW_PCCAP_VALID)

----------------------------------------------------------------------------
(* mint_pccap *)

\* Keyring._secret of the engine's keyring, and of some other keyring
Secret == "k_engine"
ForeignSecret == "k_other"

\* generate_token_id() and the nonce: fresh random strings, the n-th draw
generate_token_id(n) == "pccap_" \o ToString(n)
fresh_nonce(n) == "nonce_" \o ToString(n)

TokenIds == {generate_token_id(n) : n \in 1..MaxTokens}

\* a mint_pccap that gives every token a lifetime of at least one unit
mint_pccap_min_lifetime(principal, scope, issued_by, secret, ttl_seconds, policy_id, single_use, t, n) ==
    LET token == [token_id      |-> generate_token_id(n),
                  principal_sub |-> principal,
                  scope         |-> scope,
                  issued_at     |-> t,
                  expires_at    |-> t + (IF ttl_seconds < 1 THEN 1 ELSE ttl_seconds),
                  issued_by     |-> issued_by,
                  policy_id     |-> policy_id,
                  single_use    |-> single_use,
                  nonce         |-> Some("nonce_" \o ToString(n)),
                  signature     |-> None,
                  algorithm     |-> "HS256"]
    IN  [token EXCEPT !.signature = Some(sign(secret, token))]

\* a mint_pccap that gives every token the default lifetime
mint_pccap_default_ttl(principal, scope, issued_by, secret, ttl_seconds, policy_id, single_use, t, n) ==
    LET token == [token_id      |-> generate_token_id(n),
                  principal_sub |-> principal,
                  scope         |-> scope,
                  issued_at     |-> t,
                  expires_at    |-> t + 1,
                  issued_by     |-> issued_by,
                  policy_id     |-> policy_id,
                  single_use    |-> single_use,
                  nonce         |-> Some("nonce_" \o ToString(n)),
                  signature     |-> None,
                  algorithm     |-> "HS256"]
    IN  [token EXCEPT !.signature = Some(sign(secret, token))]

\* mint_pccap(principal, scope, issued_by, keyring, ttl_seconds, policy_id,
\* single_use), with t the value of time.time() and n the random draw
mint_pccap(principal, scope, issued_by, secret, ttl_seconds, policy_id, single_use, t, n) ==
    LET token == [token_id      |-> generate_token_id(n),
                  principal_sub |-> principal,
                  scope         |-> scope,
                  issued_at     |-> t,
                  expires_at    |-> t + ttl_seconds,
                  issued_by     |-> issued_by,
                  policy_id     |-> policy_id,
                  single_use    |-> single_use,
                  nonce         |-> Some(fresh_nonce(n)),
                  signature     |-> None,
                  algorithm     |-> "HS256"]
    IN  [token EXCEPT !.signature = Some(sign(secret, token))]

----------------------------------------------------------------------------
(* PCCapStore *)

index_of(toks, token_id) ==
    IF \E i \in 1..Len(toks) : toks[i].token_id = token_id
    THEN CHOOSE i \in 1..Len(toks) : toks[i].token_id = token_id
    ELSE 0

\* PCCapStore.store: self._tokens[token.token_id] = token (an existing key
\* keeps its place in the dict order)
store_store(toks, token) ==
    IF index_of(toks, token.token_id) = 0 THEN Append(toks, token)
    ELSE [toks EXCEPT ![index_of(toks, token.token_id)] = token]

\* PCCapStore.get
store_get(toks, token_id) ==
    IF index_of(toks, token_id) = 0 THEN None
    ELSE Some(toks[index_of(toks, token_id)])

\* PCCapStore.is_used
is_used(usedset, token_id) == token_id \in usedset

\* a list_for_principal that does not look at the consumed set
list_for_principal_with_consumed(toks, usedset, principal_sub, t) ==
    SelectSeq(toks, LAMBDA tk : /\ tk.principal_sub = principal_sub
                                /\ ~is_expired(tk, t))

\* PCCapStore.list_for_principal, with t the value of time.time()
list_for_principal(toks, usedset, principal_sub, t) ==
    SelectSeq(toks, LAMBDA tk : /\ tk.principal_sub = principal_sub
                                /\ ~is_expired(tk, t)
                                /\ ~is_used(usedset, tk.token_id))

\* the ids cleanup_expired(now) collects
expired_ids(toks, t) ==
    {toks[i].token_id : i \in {j \in 1..Len(toks) : is_expired(toks[j], t)}}

without_ids(toks, ids) == SelectSeq(toks, LAMBDA tk : tk.token_id \notin ids)

StoredIds == {tokens[i].token_id : i \in 1..Len(tokens)}

\* PCCapStore.revoke -> the store after the call and the value returned
revoke(toks, usedset, token_id) ==
    IF index_of(toks, token_id) /= 0
    THEN [tokens |-> without_ids(toks, {token_id}),
          used   |-> usedset \ {token_id},
          ret    |-> TRUE]
    ELSE [tokens |-> toks, used |-> usedset, ret |-> FALSE]

\* a mark_used that reports success whether or not the id was consumed
mark_used_always_true(usedset, token_id) ==
    [used |-> usedset \cup {token_id}, ret |-> TRUE]

\* PCCapStore.mark_used -> the consumed set after the call and the value returned
mark_used(usedset, token_id) ==
    IF token_id \in usedset
    THEN [used |-> usedset, ret |-> FALSE]
    ELSE [used |-> usedset \cup {token_id}, ret |-> TRUE]

\* a cleanup_expired that leaves the consumed set alone
cleanup_expired_keep_consumed(toks, usedset, now_arg, clock) ==
    LET t       == IF now_arg = None THEN clock ELSE now_arg[1]
        expired == expired_ids(toks, t)
    IN  [tokens |-> without_ids(toks, expired),
         used   |-> usedset,
         ret    |-> Cardinality(expired)]

\* a cleanup_expired that empties the consumed set
cleanup_expired_reset_consumed(toks, usedset, now_arg, clock) ==
    LET t       == IF now_arg = None THEN clock ELSE now_arg[1]
        expired == expired_ids(toks, t)
    IN  [tokens |-> without_ids(toks, expired),
         used   |-> IF expired = {} THEN usedset ELSE {},
         ret    |-> Cardinality(expired)]

\* PCCapStore.cleanup_expired(now) -> the store after the call and the count
\* returned; now_arg is the optional argument, clock the value of time.time()
cleanup_expired(toks, usedset, now_arg, clock) ==
    LET t       == IF now_arg = None THEN clock ELSE now_arg[1]
        expired == expired_ids(toks, t)
    IN  [tokens |-> without_ids(toks, expired),
         used   |-> usedset \ expired,
         ret    |-> Cardinality(expired)]

----------------------------------------------------------------------------
(* Inputs: principals, scopes, requests *)

Agent == "agent@test.com"
OtherAgent == "other@test.com"
Admin == "admin@test.com"

EmptyDict == [k \in {} |-> ""]

\* PCCapScope(tool_name="fs.delete", path_prefix="/tmp/scratch")
ScratchScope == [tool_name    |-> "fs.delete",
                 allowed_args |-> EmptyDict,
                 path_prefix  |-> Some(<<"", "tmp", "scratch">>),
                 max_bytes    |-> None]

\* PCCapScope(tool_name="fs.delete", path_prefix="/etc")
EtcScope == [tool_name    |-> "fs.delete",
             allowed_args |-> EmptyDict,
             path_prefix  |-> Some(<<"", "etc">>),
             max_bytes    |-> None]

ScratchFile == <<"", "tmp", "scratch", "file.txt">>
EtcPasswd == <<"", "etc", "passwd">>

\* ttl_seconds, in units of the default lifetime (300 s): 0 and the default
Ttls == {0, 1}
DefaultTtl == 1

Request(principal, tool_name, arguments, token_id) ==
    [principal |-> principal, tool_name |-> tool_name,
     arguments |-> arguments, token_id |-> token_id]

\* `not token_id`: the parameter is None or the empty string
no_token_id(req) == req.token_id = None \/ req.token_id = Some("")

\* the (principal, tool_name, arguments) triples callers present
Asks ==
    { <<Agent, "fs.delete", [path |-> ScratchFile]>>,
      <<Agent, "fs.delete", [path |-> EtcPasswd]>>,
      <<OtherAgent, "fs.delete", [path |-> ScratchFile]>>,
      <<Agent, "fs.write", [path |-> ScratchFile]>> }

Requests ==
    { Request(a[1], a[2], a[3], tid) :
          a \in Asks, tid \in {None} \cup {Some(id) : id \in TokenIds} }
    \cup { Request(Agent, "fs.delete", [path |-> ScratchFile], Some("")) }

\* the parameters mint is called with: (principal, scope, ttl_seconds, single_use);
\* the first one is mint's defaults
MintCases ==
    { <<Agent, ScratchScope, DefaultTtl, TRUE>>,
      <<Agent, ScratchScope, DefaultTtl, FALSE>>,
      <<Agent, ScratchScope, 0, TRUE>>,
      <<Agent, EtcScope, DefaultTtl, TRUE>>,
      <<OtherAgent, ScratchScope, DefaultTtl, FALSE>> }

----------------------------------------------------------------------------
(* PCCapPolicyEngine.evaluate_with_pccap, one step per access to shared state *)

\* the locals of a call in flight
NewCall(req, pc, tok, cands, usedset, t) ==
    [pc |-> pc, req |-> req, tok |-> tok, cands |-> cands,
     startAt |-> t, startUsed |-> usedset, enfAt |-> None, scoped |-> {}]

\* what a step leaves: the call's locals, the consumed set, and (when the call
\* returns in this step) its verdict
Going(call, usedset) == [call |-> call, used |-> usedset, out |-> None]
Return(call, usedset, verdict) ==
    [call |-> call, used |-> usedset, out |-> Some(verdict)]

ReplayVerdict == Verdict(FALSE, "already been used", DENY_PCCAP_REPLAY)

\* a lookup that falls back on the principal's own tokens when the id is unknown
eval_begin_fallback(req, toks, usedset, t) ==
    IF no_token_id(req) \/ store_get(toks, req.token_id[1]) = None
    THEN Going(NewCall(req, "iter", None,
                       list_for_principal(toks, usedset, req.principal, t), usedset, t),
               usedset)
    ELSE Going(NewCall(req, "check_used", store_get(toks, req.token_id[1]), <<>>,
                       usedset, t), usedset)

\* a lookup by id that answers from the tokens the engine has handed out,
\* whether or not they are still in the issued map
eval_begin_handed_out(req, toks, usedset, t) ==
    IF no_token_id(req)
    THEN Going(NewCall(req, "iter", None,
                       list_for_principal(toks, usedset, req.principal, t), usedset, t),
               usedset)
    ELSE IF req.token_id[1] \in DOMAIN signedAs
    THEN Going(NewCall(req, "check_used", Some(signedAs[req.token_id[1]].token), <<>>,
                       usedset, t), usedset)
    ELSE Return(NewCall(req, "done", None, <<>>, usedset, t), usedset,
                Verdict(FALSE, "not found", DENY_PCCAP_NOT_FOUND))

\* lines 578-580 (no token id): tokens = self._store.list_for_principal(principal.sub)
\* lines 610-617 (token id): token = self._store.get(token_id)
eval_begin(req, toks, usedset, t) ==
    IF no_token_id(req)
    THEN Going(NewCall(req, "iter", None,
                       list_for_principal(toks, usedset, req.principal, t), usedset, t),
               usedset)
    ELSE LET token == store_get(toks, req.token_id[1]) IN
         IF token = None
         THEN Return(NewCall(req, "done", None, <<>>, usedset, t), usedset,
                     Verdict(FALSE, "not found", DENY_PCCAP_NOT_FOUND))
         ELSE Going(NewCall(req, "check_used", token, <<>>, usedset, t), usedset)

\* lines 581-585: the head of the loop, up to `if matches:`
step_iter(call, usedset) ==
    IF call.cands = <<>>
    THEN Return([call EXCEPT !.tok = None, !.pc = "done"], usedset,
                Verdict(FALSE, "no valid token", DENY_NO_PCCAP))
    ELSE LET t == Head(call.cands)
             m == matches_request(t.scope, call.req.tool_name, call.req.arguments)
         IN
         IF t.single_use /\ is_used(usedset, t.token_id)
         THEN Going([call EXCEPT !.cands = Tail(call.cands)], usedset)
         ELSE IF m.raised /= None
         THEN Return([call EXCEPT !.tok = Some(t), !.pc = "done",
                                  !.scoped = @ \cup {t}], usedset,
                     Fault(m.raised[1]))
         ELSE IF ~m.matches
         THEN Going([call EXCEPT !.cands = Tail(call.cands),
                                 !.scoped = @ \cup {t}], usedset)
         ELSE Going([call EXCEPT !.cands = Tail(call.cands), !.tok = Some(t),
                                 !.pc = "check_used", !.scoped = @ \cup {t}], usedset)

\* lines 586-591 and 618-623: if token.single_use and self._store.is_used(...)
step_check_used(call, usedset) ==
    IF call.tok[1].single_use /\ is_used(usedset, call.tok[1].token_id)
    THEN Return([call EXCEPT !.pc = "done"], usedset, ReplayVerdict)
    ELSE Going([call EXCEPT !.pc = "enforce"], usedset)

\* an enforce step that judges expiry by the clock value read when the token
\* was looked up or listed
step_enforce_cached(call, usedset, t) ==
    LET verdict == enforce_pccap(call.req.principal, call.req.tool_name,
                                 call.req.arguments, call.tok[1], Secret, call.startAt)
        seen    == [call EXCEPT !.enfAt = Some(t)]
    IN  IF verdict.allowed /\ call.tok[1].single_use
        THEN Going([seen EXCEPT !.pc = "mark_used"], usedset)
        ELSE IF ~verdict.allowed /\ no_token_id(call.req)
        THEN Going([seen EXCEPT !.pc = "iter"], usedset)
        ELSE Return([seen EXCEPT !.pc = "done"], usedset, verdict)

\* an enforce step that reports a candidate's denial instead of moving on to
\* the next candidate
step_enforce_report_denial(call, usedset, t) ==
    LET verdict == enforce_pccap(call.req.principal, call.req.tool_name,
                                 call.req.arguments, call.tok[1], Secret, t)
        seen    == [call EXCEPT !.enfAt = Some(t)]
    IN  IF verdict.allowed /\ call.tok[1].single_use
        THEN Going([seen EXCEPT !.pc = "mark_used"], usedset)
        ELSE Return([seen EXCEPT !.pc = "done"], usedset, verdict)

\* an enforce step that consumes a token presented by id when it denies
step_enforce_burn_on_deny(call, usedset, t) ==
    LET verdict == enforce_pccap(call.req.principal, call.req.tool_name,
                                 call.req.arguments, call.tok[1], Secret, t)
        seen    == [call EXCEPT !.enfAt = Some(t)]
    IN  IF verdict.code = RAISED
        THEN Return([seen EXCEPT !.pc = "done"], usedset, verdict)
        ELSE IF verdict.allowed /\ call.tok[1].single_use
        THEN Going([seen EXCEPT !.pc = "mark_used"], usedset)
        ELSE IF ~verdict.allowed /\ no_token_id(call.req)
        THEN Going([seen EXCEPT !.pc = "iter"], usedset)
        ELSE Return([seen EXCEPT !.pc = "done"],
                    IF verdict.allowed THEN usedset
                    ELSE usedset \cup {call.tok[1].token_id},
                    verdict)

\* an enforce step that ends the search without a token id at the first
\* candidate enforce denies
step_enforce_stop_at_denial(call, usedset, t) ==
    LET verdict == enforce_pccap(call.req.principal, call.req.tool_name,
                                 call.req.arguments, call.tok[1], Secret, t)
        seen    == [call EXCEPT !.enfAt = Some(t)]
    IN  IF verdict.code = RAISED
        THEN Return([seen EXCEPT !.pc = "done"], usedset, verdict)
        ELSE IF verdict.allowed /\ call.tok[1].single_use
        THEN Going([seen EXCEPT !.pc = "mark_used"], usedset)
        ELSE IF ~verdict.allowed /\ no_token_id(call.req)
        THEN Return([seen EXCEPT !.pc = "done"], usedset,
                    Verdict(FALSE, "no valid token", DENY_NO_PCCAP))
        ELSE Return([seen EXCEPT !.pc = "done"], usedset, verdict)

\* an enforce step that consumes every allowed token, single-use or not
step_enforce_consume_all(call, usedset, t) ==
    LET verdict == enforce_pccap(call.req.principal, call.req.tool_name,
                                 call.req.arguments, call.tok[1], Secret, t)
        seen    == [call EXCEPT !.enfAt = Some(t)]
    IN  IF verdict.allowed
        THEN Going([seen EXCEPT !.pc = "mark_used"], usedset)
        ELSE IF ~verdict.allowed /\ no_token_id(call.req)
        THEN Going([seen EXCEPT !.pc = "iter"], usedset)
        ELSE Return([seen EXCEPT !.pc = "done"], usedset, verdict)

\* lines 592-595 and 625-628: enforce_pccap(...), then the branch on `allowed`
step_enforce(call, usedset, t) ==
    LET verdict == enforce_pccap(call.req.principal, call.req.tool_name,
                                 call.req.arguments, call.tok[1], Secret, t)
        seen    == [call EXCEPT !.enfAt = Some(t)]
    IN  IF verdict.code = RAISED
        THEN Return([seen EXCEPT !.pc = "done"], usedset, verdict)
        ELSE IF verdict.allowed /\ call.tok[1].single_use
        THEN Going([seen EXCEPT !.pc = "mark_used"], usedset)
        ELSE IF ~verdict.allowed /\ no_token_id(call.req)
        THEN Going([seen EXCEPT !.pc = "iter"], usedset)
        ELSE Return([seen EXCEPT !.pc = "done"], usedset, verdict)

\* PCCapStore.mark_used, line 284: if token_id in self._used_tokens: return False
step_mark_used_test(call, usedset) ==
    IF call.tok[1].token_id \in usedset
    THEN Return([call EXCEPT !.pc = "done"], usedset, ReplayVerdict)
    ELSE Going([call EXCEPT !.pc = "mark_add"], usedset)

\* a mark_used that reports success without recording the id
step_mark_used_forget(call, usedset) ==
    Return([call EXCEPT !.pc = "done"], usedset,
           Verdict(TRUE, "valid", ALLOW_PCCAP_VALID))

\* a mark_used that also records every candidate the call has tried
step_mark_used_add_tried(call, usedset) ==
    Return([call EXCEPT !.pc = "done"],
           usedset \cup {call.tok[1].token_id} \cup {tk.token_id : tk \in call.scoped},
           Verdict(TRUE, "valid", ALLOW_PCCAP_VALID))

\* PCCapStore.mark_used, lines 286-287: self._used_tokens.add(token_id); return True
step_mark_used_add(call, usedset) ==
    Return([call EXCEPT !.pc = "done"], usedset \cup {call.tok[1].token_id},
           Verdict(TRUE, "valid", ALLOW_PCCAP_VALID))

eval_step(call, usedset, t) ==
    CASE call.pc = "iter"       -> step_iter(call, usedset)
      [] call.pc = "check_used" -> step_check_used(call, usedset)
      [] call.pc = "enforce"    -> step_enforce(call, usedset, t)
      [] call.pc = "mark_used"  -> step_mark_used_test(call, usedset)
      [] call.pc = "mark_add"   -> step_mark_used_add(call, usedset)

\* the value of time.time() at the reads-th read of a call that starts at t0,
\* when the clock moves on by one after `late` reads
clock_at(t0, reads, late) == IF reads <= late \/ t0 >= MaxTime THEN t0 ELSE t0 + 1

\* the call run to its return with no other call in between: the last step's
\* result, with the number of clock reads made
RECURSIVE eval_run(_, _, _, _)
eval_run(sr, t0, reads, late) ==
    IF sr.out /= None THEN [sr |-> sr, reads |-> reads]
    ELSE IF sr.call.pc = "enforce"
    THEN eval_run(eval_step(sr.call, sr.used, clock_at(t0, reads + 1, late)),
                  t0, reads + 1, late)
    ELSE eval_run(eval_step(sr.call, sr.used, t0), t0, reads, late)

\* evaluate_with_pccap as one call
evaluate_with_pccap(req, toks, usedset, t0, late) ==
    LET first == IF no_token_id(req) THEN 1 ELSE 0 IN
    eval_run(eval_begin(req, toks, usedset, clock_at(t0, first, late)), t0, first, late)

----------------------------------------------------------------------------
(* PCCapPolicyEngine: state and operations *)

Callers == {"c1", "c2"}

Idle == [pc |-> "idle"]
NoRes == [op |-> "none"]

bump(n) == IF n < 2 THEN n + 1 ELSE n

\* the record of a returned call
Returned(sr, allowsBefore) ==
    [op           |-> "evaluate",
     req          |-> sr.call.req,
     allowed      |-> sr.out[1].allowed,
     reason       |-> sr.out[1].reason,
     code         |-> sr.out[1].code,
     tok          |-> sr.call.tok,
     startAt      |-> sr.call.startAt,
     startUsed    |-> sr.call.startUsed,
     enfAt        |-> sr.call.enfAt,
     endUsed      |-> sr.used,
     scoped       |-> sr.call.scoped,
     allowsBefore |-> allowsBefore]

allows_of(h, tok) == IF tok = None THEN 0 ELSE h[tok[1].token_id]

count_allow(h, sr) ==
    IF sr.out[1].allowed
    THEN [h EXCEPT ![sr.call.tok[1].token_id] = bump(@)]
    ELSE h

InitAdapter ==
    /\ tokens = <<>>
    /\ used = {}
    /\ now = 0
    /\ nextId = 0
    /\ calls = [c \in Callers |-> Idle]
    /\ res = [c \in Callers |-> NoRes]
    /\ hist = [id \in TokenIds |-> 0]
    /\ signedAs = [id \in {} |-> None]
    /\ expiredSeen = {}

Cleared == [c \in Callers |-> NoRes]

\* time.time() is non-decreasing
Tick ==
    /\ now < MaxTime
    /\ now' = now + 1
    /\ res' = Cleared
    /\ UNCHANGED <<tokens, used, nextId, calls, hist, signedAs, expiredSeen>>

\* PCCapPolicyEngine.mint
Mint(principal, scope, ttl_seconds, single_use) ==
    /\ nextId < MaxTokens
    /\ LET token == mint_pccap(principal, scope, Admin, Secret, ttl_seconds, None,
                               single_use, now, nextId + 1)
       IN  /\ tokens' = store_store(tokens, token)
           /\ signedAs' = (token.token_id :> [token |-> token, ttl |-> ttl_seconds]) @@ signedAs
           /\ res' = [Cleared EXCEPT !["c1"] =
                         [op |-> "mint", principal |-> principal,
                          ttl_seconds |-> ttl_seconds, at |-> now, token |-> token,
                          tokens_before |-> tokens, used_before |-> used]]
    /\ nextId' = nextId + 1
    /\ UNCHANGED <<used, now, calls, hist, expiredSeen>>

forget(f, ids) == [id \in DOMAIN f \ ids |-> f[id]]

\* PCCapPolicyEngine.revoke -> PCCapStore.revoke
Revoke(token_id) ==
    /\ IF token_id \in StoredIds
       THEN /\ tokens' = without_ids(tokens, {token_id})
            /\ used' = used \ {token_id}
            /\ hist' = [hist EXCEPT ![token_id] = 0]
            /\ signedAs' = forget(signedAs, {token_id})
       ELSE UNCHANGED <<tokens, used, hist, signedAs>>
    /\ res' = Cleared
    /\ UNCHANGED <<now, nextId, calls, expiredSeen>>

\* PCCapPolicyEngine.cleanup -> PCCapStore.cleanup_expired()
Cleanup ==
    LET expired == expired_ids(tokens, now) IN
    /\ tokens' = without_ids(tokens, expired)
    /\ used' = used \ expired
    /\ hist' = [id \in TokenIds |-> IF id \in expired THEN 0 ELSE hist[id]]
    /\ signedAs' = forget(signedAs, expired)
    /\ res' = Cleared
    /\ UNCHANGED <<now, nextId, calls, expiredSeen>>

\* after how many of its clock reads a call may see the clock move on: a call
\* with a token id reads the clock once, a call without reads it once to list
\* the tokens and once per candidate it enforces
Lates(req) == IF no_token_id(req) THEN 1..(MaxTokens + 1) ELSE {1}

\* PCCapPolicyEngine.evaluate_with_pccap, called by c and run to its return;
\* the clock may move on once while the call runs
Evaluate(c, req) ==
    \E late \in Lates(req) :
    \E run \in {evaluate_with_pccap(req, tokens, used, now, late)} :
        /\ used' = run.sr.used
        /\ now' = clock_at(now, run.reads, late)
        /\ res' = [Cleared EXCEPT ![c] = Returned(run.sr, allows_of(hist, run.sr.call.tok))]
        /\ hist' = count_allow(hist, run.sr)
        /\ UNCHANGED <<tokens, nextId, calls, signedAs, expiredSeen>>

----------------------------------------------------------------------------
(* What the callers of the tests do to a token object the store holds *)

\* every stored token verifies under the engine's keyring: the tests tamper
\* with one token at a time
all_verify == \A i \in 1..Len(tokens) : verify(Secret, tokens[i])

replace_token(token) ==
    tokens' = [tokens EXCEPT ![index_of(tokens, token.token_id)] = token]

\* test_invalid_signature_denied: token.signature = "corrupted"
CorruptSignature(token_id) ==
    /\ token_id \in StoredIds
    /\ all_verify
    /\ LET token == store_get(tokens, token_id)[1] IN
       /\ replace_token([token EXCEPT !.signature = Some("corrupted")])
    /\ res' = Cleared
    /\ UNCHANGED <<used, now, nextId, calls, hist, signedAs, expiredSeen>>

\* test_signature_tampering_detected: token.expires_at = token.expires_at + 3600
ExtendExpiry(token_id) ==
    /\ token_id \in StoredIds
    /\ all_verify
    /\ LET token == store_get(tokens, token_id)[1] IN
       /\ replace_token([token EXCEPT !.expires_at = @ + 1])
    /\ res' = Cleared
    /\ UNCHANGED <<used, now, nextId, calls, hist, signedAs, expiredSeen>>

\* a token minted with another keyring and put in the store (PCCapStore.store)
StoreForeign(principal, scope, ttl_seconds, single_use) ==
    /\ nextId < MaxTokens
    /\ all_verify
    /\ LET token == mint_pccap(principal, scope, Admin, ForeignSecret, ttl_seconds,
                               None, single_use, now, nextId + 1)
       IN  /\ tokens' = store_store(tokens, token)
           /\ signedAs' = (token.token_id :> [token |-> token, ttl |-> ttl_seconds]) @@ signedAs
    /\ nextId' = nextId + 1
    /\ res' = Cleared
    /\ UNCHANGED <<used, now, calls, hist, expiredSeen>>

----------------------------------------------------------------------------
(* Spec: the adapter's operations called one after the other *)

Init == InitAdapter

Next ==
    \/ Tick
    \/ \E m \in MintCases : Mint(m[1], m[2], m[3], m[4])
    \/ \E id \in TokenIds : Revoke(id)
    \/ Cleanup
    \/ \E req \in Requests : Evaluate("c1", req)
    \/ \E id \in TokenIds : CorruptSignature(id)
    \/ \E id \in TokenIds : ExtendExpiry(id)
    \/ StoreForeign(Agent, ScratchScope, DefaultTtl, TRUE)

Spec == Init /\ [][Next]_vars

----------------------------------------------------------------------------
(* SpecConc: two callers (threads) inside evaluate_with_pccap at once.  The    *)
(* code takes no lock, so the calls interleave between any two accesses to the *)
(* store, in particular between the test and the add of PCCapStore.mark_used.  *)

ConcMintCases ==
    { <<Agent, ScratchScope, DefaultTtl, TRUE>>,
      <<Agent, ScratchScope, DefaultTtl, FALSE>> }

ConcTokenIds == {generate_token_id(n) : n \in 1..MaxConcTokens}

ConcRequests ==
    { Request(Agent, "fs.delete", [path |-> ScratchFile], tid) :
          tid \in {None} \cup {Some(id) : id \in ConcTokenIds} }
    \cup { Request(Agent, "fs.delete", [path |-> EtcPasswd], Some(generate_token_id(1))) }

\* what a step of caller c leaves in the state
Leave(c, sr) ==
    /\ used' = sr.used
    /\ IF sr.out = None
       THEN /\ calls' = [calls EXCEPT ![c] = sr.call]
            /\ res' = [res EXCEPT ![c] = NoRes]
            /\ UNCHANGED hist
       ELSE /\ calls' = [calls EXCEPT ![c] = Idle]
            /\ res' = [res EXCEPT ![c] = Returned(sr, allows_of(hist, sr.call.tok))]
            /\ hist' = count_allow(hist, sr)
    /\ UNCHANGED <<tokens, now, nextId, signedAs, expiredSeen>>

\* c calls evaluate_with_pccap: the lookup, or the listing
ConcStart(c, req) ==
    /\ calls[c].pc = "idle"
    /\ \E sr \in {eval_begin(req, tokens, used, now)} :
           Leave(c, [sr EXCEPT !.call.pc = IF sr.out = None THEN @ ELSE "idle"])

\* c at "for token in tokens"
ConcIter(c) ==
    /\ calls[c].pc = "iter"
    /\ \E sr \in {eval_step(calls[c], used, now)} : Leave(c, sr)

\* c at "if token.single_use and self._store.is_used(...)"
ConcCheckUsed(c) ==
    /\ calls[c].pc = "check_used"
    /\ \E sr \in {eval_step(calls[c], used, now)} : Leave(c, sr)

\* c at "result = enforce_pccap(...)"
ConcEnforce(c) ==
    /\ calls[c].pc = "enforce"
    /\ \E sr \in {eval_step(calls[c], used, now)} : Leave(c, sr)

\* c inside mark_used at "if token_id in self._used_tokens"
ConcMarkUsedTest(c) ==
    /\ calls[c].pc = "mark_used"
    /\ \E sr \in {eval_step(calls[c], used, now)} : Leave(c, sr)

\* c inside mark_used at "self._used_tokens.add(token_id)"
ConcMarkUsedAdd(c) ==
    /\ calls[c].pc = "mark_add"
    /\ \E sr \in {eval_step(calls[c], used, now)} : Leave(c, sr)

ConcTick ==
    /\ now < MaxTime
    /\ now' = now + 1
    /\ res' = Cleared
    /\ UNCHANGED <<tokens, used, nextId, calls, hist, signedAs, expiredSeen>>

ConcMint(principal, scope, ttl_seconds, single_use) ==
    /\ nextId < MaxConcTokens
    /\ LET token == mint_pccap(principal, scope, Admin, Secret, ttl_seconds, None,
                               single_use, now, nextId + 1)
       IN  /\ tokens' = store_store(tokens, token)
           /\ signedAs' = (token.token_id :> [token |-> token, ttl |-> ttl_seconds]) @@ signedAs
    /\ nextId' = nextId + 1
    /\ res' = Cleared
    /\ UNCHANGED <<used, now, calls, hist, expiredSeen>>

NextConc ==
    \/ ConcTick
    \/ \E m \in ConcMintCases : ConcMint(m[1], m[2], m[3], m[4])
    \/ \E c \in Callers : \E req \in ConcRequests : ConcStart(c, req)
    \/ \E c \in Callers : ConcIter(c)
    \/ \E c \in Callers : ConcCheckUsed(c)
    \/ \E c \in Callers : ConcEnforce(c)
    \/ \E c \in Callers : ConcMarkUsedTest(c)
    \/ \E c \in Callers : ConcMarkUsedAdd(c)

SpecConc == InitAdapter /\ [][NextConc]_vars

----------------------------------------------------------------------------
(* SpecRace: the callers of SpecConc, and revoke and cleanup calls that land *)
(* between any two steps of a running evaluate_with_pccap                    *)

NextRace ==
    \/ NextConc
    \/ \E id \in ConcTokenIds : Revoke(id)
    \/ Cleanup

SpecRace == InitAdapter /\ [][NextRace]_vars

----------------------------------------------------------------------------
(* SpecAuto: two callers inside evaluate_with_pccap at once, both without a  *)
(* token id, on tokens minted before the calls start                         *)

AutoRequests == { Request(Agent, "fs.delete", [path |-> ScratchFile], None) }

\* PCCapPolicyEngine.mint, while no call is running
AutoMint(principal, scope, ttl_seconds, single_use) ==
    /\ nextId < MaxTokens
    /\ \A c \in Callers : calls[c].pc = "idle"
    /\ LET token == mint_pccap(principal, scope, Admin, Secret, ttl_seconds, None,
                               single_use, now, nextId + 1)
       IN  /\ tokens' = store_store(tokens, token)
           /\ signedAs' = (token.token_id :> [token |-> token, ttl |-> ttl_seconds]) @@ signedAs
    /\ nextId' = nextId + 1
    /\ res' = Cleared
    /\ UNCHANGED <<used, now, calls, hist, expiredSeen>>

NextAuto ==
    \/ \E m \in ConcMintCases : AutoMint(m[1], m[2], m[3], m[4])
    \/ \E c \in Callers : \E req \in AutoRequests : ConcStart(c, req)
    \/ \E c \in Callers : ConcIter(c)
    \/ \E c \in Callers : ConcCheckUsed(c)
    \/ \E c \in Callers : ConcEnforce(c)
    \/ \E c \in Callers : ConcMarkUsedTest(c)
    \/ \E c \in Callers : ConcMarkUsedAdd(c)

SpecAuto == InitAdapter /\ [][NextAuto]_vars

----------------------------------------------------------------------------
(* SpecSweep: caller c1 inside PCCapStore.cleanup_expired, one step per      *)
(* access to the store, while caller c2 mints, gets and evaluates.  The code *)
(* takes no lock; the list comprehension of lines 298-301 iterates over      *)
(* self._tokens.items(), and a dict iterator raises RuntimeError on its next *)
(* step once the dict has changed size.                                      *)

SweepMintCases ==
    { <<Agent, ScratchScope, 0, TRUE>>, <<Agent, ScratchScope, DefaultTtl, TRUE>> }

SweepRequests ==
    { Request(Agent, "fs.delete", [path |-> ScratchFile], tid) :
          tid \in {None, Some(generate_token_id(1))} }

Sweeping == calls["c1"].pc \in {"scan", "delete", "discard"}

\* the sweep's return, or the exception that ends it
SweepEnd(ret, raised) ==
    /\ calls' = [calls EXCEPT !["c1"] = Idle]
    /\ res' = [res EXCEPT !["c1"] =
                  [op |-> "sweep", ret |-> ret, raised |-> raised,
                   at |-> calls["c1"].at,
                   tokens_before |-> calls["c1"].tokens_before,
                   minted |-> calls["c1"].minted]]

\* cleanup_expired(now) is called (lines 295-296), with now = time.time(), and
\* the iterator over self._tokens.items() is made
SweepStart ==
    /\ calls["c1"].pc = "idle"
    /\ calls' = [calls EXCEPT !["c1"] =
                    [pc |-> "scan", at |-> now, i |-> 1, size |-> Len(tokens),
                     expired |-> <<>>, len_expired |-> 0,
                     tokens_before |-> tokens, minted |-> {}]]
    /\ res' = [res EXCEPT !["c1"] = NoRes]
    /\ UNCHANGED <<tokens, used, now, nextId, hist, signedAs, expiredSeen>>

\* lines 298-301: one step of the iterator, and token.is_expired(now)
SweepScan ==
    /\ calls["c1"].pc = "scan"
    /\ IF Len(tokens) /= calls["c1"].size
       THEN SweepEnd(None, Some("RuntimeError"))
       ELSE IF calls["c1"].i > Len(tokens)
       THEN /\ calls' = [calls EXCEPT !["c1"].pc = "delete"]
            /\ UNCHANGED res
       ELSE /\ calls' = [calls EXCEPT
                            !["c1"].i = @ + 1,
                            !["c1"].expired =
                                IF is_expired(tokens[calls["c1"].i], calls["c1"].at)
                                THEN Append(@, tokens[calls["c1"].i].token_id)
                                ELSE @,
                            !["c1"].len_expired =
                                IF is_expired(tokens[calls["c1"].i], calls["c1"].at)
                                THEN @ + 1
                                ELSE @]
            /\ UNCHANGED res
    /\ UNCHANGED <<tokens, used, now, nextId, hist, signedAs, expiredSeen>>

\* lines 302-303: for tid in expired: del self._tokens[tid]; line 305 when the
\* loop is over
SweepDelete ==
    /\ calls["c1"].pc = "delete"
    /\ IF calls["c1"].expired = <<>>
       THEN /\ SweepEnd(Some(calls["c1"].len_expired), None)
            /\ UNCHANGED tokens
       ELSE IF index_of(tokens, Head(calls["c1"].expired)) = 0
       THEN /\ SweepEnd(None, Some("KeyError"))
            /\ UNCHANGED tokens
       ELSE /\ tokens' = without_ids(tokens, {Head(calls["c1"].expired)})
            /\ calls' = [calls EXCEPT !["c1"].pc = "discard"]
            /\ UNCHANGED res
    /\ UNCHANGED <<used, now, nextId, hist, signedAs, expiredSeen>>

\* line 304: self._used_tokens.discard(tid)
SweepDiscard ==
    /\ calls["c1"].pc = "discard"
    /\ used' = used \ {Head(calls["c1"].expired)}
    /\ calls' = [calls EXCEPT !["c1"].pc = "delete", !["c1"].expired = Tail(@)]
    /\ UNCHANGED <<tokens, now, nextId, res, hist, signedAs, expiredSeen>>

\* c2 calls PCCapPolicyEngine.mint
SweepMint(principal, scope, ttl_seconds, single_use) ==
    /\ nextId < MaxTokens
    /\ LET token == mint_pccap(principal, scope, Admin, Secret, ttl_seconds, None,
                               single_use, now, nextId + 1)
       IN  /\ tokens' = store_store(tokens, token)
           /\ signedAs' = (token.token_id :> [token |-> token, ttl |-> ttl_seconds]) @@ signedAs
           /\ calls' = IF Sweeping
                       THEN [calls EXCEPT !["c1"].minted = @ \cup {token}]
                       ELSE calls
    /\ nextId' = nextId + 1
    /\ res' = [res EXCEPT !["c2"] = NoRes]
    /\ UNCHANGED <<used, now, hist, expiredSeen>>

\* c2 calls PCCapStore.get(token_id)
SweepGet(token_id) ==
    /\ res' = [res EXCEPT !["c2"] =
                  [op |-> "get", token_id |-> token_id, ret |-> store_get(tokens, token_id)]]
    /\ UNCHANGED <<tokens, used, now, nextId, calls, hist, signedAs, expiredSeen>>

\* c2 calls evaluate_with_pccap and runs to its return
SweepEvaluate(req) ==
    \E run \in {evaluate_with_pccap(req, tokens, used, now, MaxTokens + 1)} :
        /\ used' = run.sr.used
        /\ res' = [res EXCEPT !["c2"] = Returned(run.sr, allows_of(hist, run.sr.call.tok))]
        /\ hist' = count_allow(hist, run.sr)
        /\ UNCHANGED <<tokens, now, nextId, calls, signedAs, expiredSeen>>

SweepTick ==
    /\ now < MaxTime
    /\ now' = now + 1
    /\ res' = [res EXCEPT !["c2"] = NoRes]
    /\ UNCHANGED <<tokens, used, nextId, calls, hist, signedAs, expiredSeen>>

NextSweep ==
    \/ SweepStart
    \/ SweepScan
    \/ SweepDelete
    \/ SweepDiscard
    \/ \E m \in SweepMintCases : SweepMint(m[1], m[2], m[3], m[4])
    \/ \E token_id \in TokenIds : SweepGet(token_id)
    \/ \E req \in SweepRequests : SweepEvaluate(req)
    \/ SweepTick

SpecSweep == InitAdapter /\ [][NextSweep]_vars

----------------------------------------------------------------------------
(* SpecSweepRevoke: the sweep of SpecSweep, while the other caller also      *)
(* revokes tokens and runs sweeps of its own                                 *)

NextSweepRevoke ==
    \/ NextSweep
    \/ \E id \in TokenIds : Revoke(id)
    \/ Cleanup

SpecSweepRevoke == InitAdapter /\ [][NextSweepRevoke]_vars

----------------------------------------------------------------------------
(* SpecWrite: the adapter with size-limited write tokens, and requests that  *)
(* carry a content argument                                                  *)

\* PCCapScope(tool_name="fs.write", max_bytes=MaxBytes)
WriteScope == [tool_name    |-> "fs.write",
               allowed_args |-> EmptyDict,
               path_prefix  |-> None,
               max_bytes    |-> Some(MaxBytes)]

Str(widths) == [bin |-> FALSE, widths |-> widths]
Bytes(n) == [bin |-> TRUE, widths |-> [i \in 1..n |-> 1]]

\* content values: "ab", two characters of four bytes, two characters of
\* five bytes, five bytes, and the lone surrogate "\ud800"
Contents == { Str(<<1, 1>>), Str(<<1, 3>>), Str(<<2, 3>>), Bytes(5), Str(<<0>>) }

WriteAsks == { <<Agent, "fs.write", [content |-> c]>> : c \in Contents }

WriteRequests ==
    { Request(a[1], a[2], a[3], tid) :
          a \in WriteAsks, tid \in {None, Some(generate_token_id(1))} }

WriteMintCases ==
    { <<Agent, WriteScope, DefaultTtl, TRUE>>,
      <<Agent, WriteScope, DefaultTtl, FALSE>>,
      <<Agent, ScratchScope, DefaultTtl, TRUE>> }

\* enforce_pccap called on the first token of the store
WriteEnforce(principal, tool_name, arguments) ==
    /\ tokens /= <<>>
    /\ \E verdict \in {enforce_pccap(principal, tool_name, arguments, tokens[1],
                                     Secret, now)} :
        /\ res' = [Cleared EXCEPT !["c1"] =
                      [op        |-> "enforce",
                       principal |-> principal,
                       tool_name |-> tool_name,
                       arguments |-> arguments,
                       tok       |-> tokens[1],
                       at        |-> now,
                       allowed   |-> verdict.allowed,
                       code      |-> verdict.code,
                       seen      |-> expiredSeen]]
        /\ expiredSeen' = IF verdict.code = DENY_PCCAP_EXPIRED THEN {tokens[1]}
                          ELSE expiredSeen
        /\ UNCHANGED <<tokens, used, now, nextId, calls, hist, signedAs>>

NextWrite ==
    \/ Tick
    \/ \E m \in WriteMintCases : Mint(m[1], m[2], m[3], m[4])
    \/ \E req \in WriteRequests : Evaluate("c1", req)
    \/ \E a \in WriteAsks : WriteEnforce(a[1], a[2], a[3])

SpecWrite == InitAdapter /\ [][NextWrite]_vars

----------------------------------------------------------------------------
(* SpecScope: PCCapScope.matches_request applied to a scope and a request    *)

\* path_prefix values: "/tmp/scratch", "/tmp/scratch/", "/etc", "scratch",
\* "/tmp/./scratch"
PrefixValues ==
    { <<"", "tmp", "scratch">>, <<"", "tmp", "scratch", "">>, <<"", "etc">>,
      <<"scratch">>, <<"", "tmp", ".", "scratch">> }

MatchScopes ==
    { [ScratchScope EXCEPT !.path_prefix = Some(p)] : p \in PrefixValues }
    \cup { WriteScope,
           [ScratchScope EXCEPT !.path_prefix = None],
           [ScratchScope EXCEPT !.max_bytes = Some(MaxBytes)],
           [ScratchScope EXCEPT !.allowed_args = [mode |-> "force"]] }

ToolNames == {"fs.delete", "fs.write", "fs.delete.all", "FS.DELETE"}

\* "/tmp/scratch/file.txt", "/tmp/scratchy/file.txt", "/tmp/scratch/../etc/passwd",
\* "/tmp/scratch/a/../b", "/etc/passwd", "/tmp/scratch", "/tmp/scratch/./x//y",
\* "//tmp/scratch/x", "scratch/x", "", "/tmp", "/tmp/scratch/..hidden", "../x"
PathValues ==
    { ScratchFile,
      <<"", "tmp", "scratchy", "file.txt">>,
      <<"", "tmp", "scratch", "..", "etc", "passwd">>,
      <<"", "tmp", "scratch", "a", "..", "b">>,
      EtcPasswd,
      <<"", "tmp", "scratch">>,
      <<"", "tmp", "scratch", ".", "x", "", "y">>,
      <<"", "", "tmp", "scratch", "x">>,
      <<"scratch", "x">>,
      EmptyStr,
      <<"", "tmp">>,
      <<"", "tmp", "scratch", "..hidden">>,
      <<"..", "x">> }

MatchArguments ==
    { [path |-> p] : p \in PathValues }
    \cup { [file_path |-> p] : p \in {ScratchFile, EtcPasswd} }
    \cup { [target |-> EtcPasswd],
           [path |-> EmptyStr, file_path |-> EtcPasswd],
           [path |-> EmptyStr, file_path |-> ScratchFile],
           [path |-> ScratchFile, file_path |-> EtcPasswd],
           [path |-> ScratchFile, mode |-> "force"],
           [path |-> ScratchFile, mode |-> "dry"],
           EmptyDict }
    \cup { [content |-> c] : c \in Contents }
    \cup { [path |-> ScratchFile, content |-> c] : c \in Contents }
    \cup { [path |-> EtcPasswd, content |-> Str(<<0>>)],
           [data |-> Str(<<2, 3>>)],
           [content |-> Str(<<>>), data |-> Bytes(5)],
           [content |-> Str(<<1, 1>>), data |-> Bytes(5)],
           [content |-> Str(<<1, 1>>), data |-> Str(<<1, 3>>)] }

InitScope ==
    /\ tokens = <<>>
    /\ used = {}
    /\ now = 0
    /\ nextId = 0
    /\ calls = [c \in Callers |-> Idle]
    /\ \E scope \in MatchScopes, tool_name \in ToolNames, arguments \in MatchArguments :
           res = [Cleared EXCEPT !["c1"] =
                     [op |-> "request", scope |-> scope, tool_name |-> tool_name,
                      arguments |-> arguments]]
    /\ hist = [id \in TokenIds |-> 0]
    /\ signedAs = [id \in {} |-> None]
    /\ expiredSeen = {}

\* scope.matches_request(tool_name, arguments)
ApplyMatches ==
    /\ res["c1"].op = "request"
    /\ res' = [res EXCEPT !["c1"] =
                  [op        |-> "matches",
                   scope     |-> res["c1"].scope,
                   tool_name |-> res["c1"].tool_name,
                   arguments |-> res["c1"].arguments,
                   result    |-> matches_request(res["c1"].scope, res["c1"].tool_name,
                                                 res["c1"].arguments)]]
    /\ UNCHANGED <<tokens, used, now, nextId, calls, hist, signedAs, expiredSeen>>

NextScope == ApplyMatches

SpecScope == InitScope /\ [][NextScope]_vars

----------------------------------------------------------------------------
(* SpecStore: the operations of PCCapStore called one after another          *)

\* (principal, ttl_seconds); mint_pccap takes any number as ttl_seconds
StoreMintCases ==
    { <<principal, ttl_seconds>> :
          principal \in {Agent, OtherAgent}, ttl_seconds \in Ttls \cup {-1} }

\* the now argument of cleanup_expired: absent, or a time
NowArgs == {None} \cup {Some(t) : t \in 0..(MaxTime + 1)}

\* mint_pccap(...) followed by PCCapStore.store(token)
StoreMint(principal, ttl_seconds) ==
    /\ nextId < MaxTokens
    /\ LET token == mint_pccap(principal, ScratchScope, Admin, Secret, ttl_seconds,
                               None, TRUE, now, nextId + 1)
       IN  /\ tokens' = store_store(tokens, token)
           /\ signedAs' = (token.token_id :> [token |-> token, ttl |-> ttl_seconds]) @@ signedAs
    /\ nextId' = nextId + 1
    /\ res' = Cleared
    /\ UNCHANGED <<used, now, calls, hist, expiredSeen>>

\* PCCapStore.revoke(token_id); again: the call before was the same revoke
StoreRevoke(token_id) ==
    LET out == revoke(tokens, used, token_id) IN
    /\ tokens' = out.tokens
    /\ used' = out.used
    /\ res' = [Cleared EXCEPT !["c1"] =
                  [op |-> "revoke", token_id |-> token_id, ret |-> out.ret,
                   tokens_before |-> tokens, used_before |-> used,
                   again |-> /\ res["c1"].op = "revoke"
                             /\ res["c1"].token_id = token_id]]
    /\ UNCHANGED <<now, nextId, calls, hist, signedAs, expiredSeen>>

\* PCCapStore.mark_used(token_id)
StoreMarkUsed(token_id) ==
    LET out == mark_used(used, token_id) IN
    /\ used' = out.used
    /\ res' = [Cleared EXCEPT !["c1"] =
                  [op |-> "mark_used", token_id |-> token_id, ret |-> out.ret,
                   tokens_before |-> tokens, used_before |-> used]]
    /\ UNCHANGED <<tokens, now, nextId, calls, hist, signedAs, expiredSeen>>

\* PCCapStore.is_used(token_id)
StoreIsUsed(token_id) ==
    /\ res' = [Cleared EXCEPT !["c1"] =
                  [op |-> "is_used", token_id |-> token_id,
                   ret |-> is_used(used, token_id)]]
    /\ UNCHANGED <<tokens, used, now, nextId, calls, hist, signedAs, expiredSeen>>

\* PCCapStore.cleanup_expired(now_arg)
StoreCleanupExpired(now_arg) ==
    LET out == cleanup_expired(tokens, used, now_arg, now) IN
    /\ tokens' = out.tokens
    /\ used' = out.used
    /\ res' = [Cleared EXCEPT !["c1"] =
                  [op |-> "cleanup_expired",
                   at |-> IF now_arg = None THEN now ELSE now_arg[1],
                   ret |-> out.ret,
                   tokens_before |-> tokens, used_before |-> used]]
    /\ UNCHANGED <<now, nextId, calls, hist, signedAs, expiredSeen>>

\* PCCapStore.list_for_principal(principal_sub)
StoreList(principal_sub) ==
    /\ res' = [Cleared EXCEPT !["c1"] =
                  [op |-> "list_for_principal", principal_sub |-> principal_sub,
                   at |-> now,
                   ret |-> list_for_principal(tokens, used, principal_sub, now),
                   tokens_before |-> tokens, used_before |-> used]]
    /\ UNCHANGED <<tokens, used, now, nextId, calls, hist, signedAs, expiredSeen>>

NextStore ==
    \/ Tick
    \/ \E m \in StoreMintCases : StoreMint(m[1], m[2])
    \/ \E token_id \in TokenIds : StoreRevoke(token_id)
    \/ \E token_id \in TokenIds : StoreMarkUsed(token_id)
    \/ \E token_id \in TokenIds : StoreIsUsed(token_id)
    \/ \E now_arg \in NowArgs : StoreCleanupExpired(now_arg)
    \/ \E principal_sub \in {Agent, OtherAgent, Admin} : StoreList(principal_sub)

SpecStore == InitAdapter /\ [][NextStore]_vars

----------------------------------------------------------------------------
(* SpecLife: the adapter's operations and its Store's, called one after the  *)
(* other on tokens whose caller keeps the object mint returned               *)

LifeMintCases ==
    { <<Agent, ScratchScope, DefaultTtl, TRUE>>,
      <<Agent, ScratchScope, DefaultTtl, FALSE>> }

\* the last two ask for the scoped tool with no path-like argument, and with
\* an empty one
LifeRequests ==
    { Request(Agent, "fs.delete", [path |-> ScratchFile], tid) :
          tid \in {None} \cup {Some(id) : id \in TokenIds} }
    \cup { Request(Agent, "fs.delete", arguments, tid) :
               arguments \in {EmptyDict, [path |-> EmptyStr]},
               tid \in {None, Some(generate_token_id(1))} }

\* PCCapPolicyEngine.revoke(token_id)
LifeRevoke(token_id) ==
    LET out == revoke(tokens, used, token_id) IN
    /\ tokens' = out.tokens
    /\ used' = out.used
    /\ res' = Cleared
    /\ UNCHANGED <<now, nextId, calls, hist, signedAs, expiredSeen>>

\* PCCapPolicyEngine.cleanup()
LifeCleanup ==
    LET out == cleanup_expired(tokens, used, None, now) IN
    /\ tokens' = out.tokens
    /\ used' = out.used
    /\ res' = Cleared
    /\ UNCHANGED <<now, nextId, calls, hist, signedAs, expiredSeen>>

\* PCCapStore.store(token), with the token an earlier mint returned
LifeStore(token_id) ==
    /\ token_id \in DOMAIN signedAs
    /\ tokens' = store_store(tokens, signedAs[token_id].token)
    /\ res' = Cleared
    /\ UNCHANGED <<used, now, nextId, calls, hist, signedAs, expiredSeen>>

\* PCCapStore.mark_used(token_id)
LifeMarkUsed(token_id) ==
    /\ used' = mark_used(used, token_id).used
    /\ res' = Cleared
    /\ UNCHANGED <<tokens, now, nextId, calls, hist, signedAs, expiredSeen>>

NextLife ==
    \/ Tick
    \/ \E m \in LifeMintCases : Mint(m[1], m[2], m[3], m[4])
    \/ \E req \in LifeRequests : Evaluate("c1", req)
    \/ \E token_id \in TokenIds : LifeRevoke(token_id)
    \/ LifeCleanup
    \/ \E token_id \in TokenIds : LifeStore(token_id)
    \/ \E token_id \in TokenIds : LifeMarkUsed(token_id)

SpecLife == InitAdapter /\ [][NextLife]_vars

----------------------------------------------------------------------------
(* SpecTok: one token object in a caller's hands (as in TestPCCapToken and     *)
(* TestEnforcePCCap): it is minted, its fields are assigned to, and            *)
(* Keyring.verify and enforce_pccap are applied to it                          *)

TheId == generate_token_id(1)
Tok == tokens[1]
Orig == signedAs[TheId].token

SignedFields ==
    {"token_id", "principal_sub", "scope", "issued_at", "expires_at", "issued_by",
     "policy_id", "single_use", "nonce", "algorithm"}
Fields == SignedFields \cup {"signature"}

ScopeValues ==
    { ScratchScope, EtcScope,
      [ScratchScope EXCEPT !.tool_name = "fs.write"],
      [ScratchScope EXCEPT !.max_bytes = Some(10)],
      [ScratchScope EXCEPT !.allowed_args = [mode |-> "force"]] }

\* the values a caller assigns to a field
FieldValues(f) ==
    CASE f = "token_id"      -> {generate_token_id(1), generate_token_id(2)}
      [] f = "principal_sub" -> {Agent, OtherAgent}
      [] f = "scope"         -> ScopeValues
      [] f = "issued_at"     -> 0..1
      [] f = "expires_at"    -> 0..2
      [] f = "issued_by"     -> {Admin, "mallory@test.com"}
      [] f = "policy_id"     -> {None, Some("policy-7")}
      [] f = "single_use"    -> BOOLEAN
      [] f = "nonce"         -> {None, Some(fresh_nonce(1))}
      [] f = "algorithm"     -> {"HS256", "Ed25519"}
      [] f = "signature"     -> {None, Some(""), Some("corrupted"), Orig.signature}

differing(token) == {g \in Fields : token[g] /= Orig[g]}

InitTok ==
    /\ \E m \in MintCases, secret \in {Secret, ForeignSecret} :
           LET token == mint_pccap(m[1], m[2], Admin, secret, m[3], None, m[4], 0, 1) IN
           /\ tokens = <<token>>
           /\ signedAs = (TheId :> [token |-> token, ttl |-> m[3]])
    /\ used = {}
    /\ now = 0
    /\ nextId = 1
    /\ calls = [c \in Callers |-> Idle]
    /\ res = Cleared
    /\ hist = [id \in TokenIds |-> 0]
    /\ expiredSeen = {}

\* token.<f> = v (test_signature_tampering_detected assigns expires_at and
\* assigns it back, test_invalid_signature_denied assigns signature)
SetField(f, v) ==
    /\ v /= Tok[f]
    /\ Cardinality(differing([Tok EXCEPT ![f] = v])) <= MaxTampered
    /\ tokens' = <<[Tok EXCEPT ![f] = v]>>
    /\ hist' = [hist EXCEPT ![TheId] = bump(@)]
    /\ res' = Cleared
    /\ UNCHANGED <<used, now, nextId, calls, signedAs, expiredSeen>>

\* keyring.verify(token)
ApplyVerify ==
    /\ res' = [Cleared EXCEPT !["c1"] =
                  [op |-> "verify", tok |-> Tok, result |-> verify(Secret, Tok)]]
    /\ UNCHANGED <<tokens, used, now, nextId, calls, hist, signedAs, expiredSeen>>

\* enforce_pccap(principal, tool_name, arguments, token, keyring)
ApplyEnforce(principal, tool_name, arguments) ==
    \E verdict \in {enforce_pccap(principal, tool_name, arguments, Tok, Secret, now)} :
        /\ res' = [Cleared EXCEPT !["c1"] =
                      [op        |-> "enforce",
                       principal |-> principal,
                       tool_name |-> tool_name,
                       arguments |-> arguments,
                       tok       |-> Tok,
                       at        |-> now,
                       allowed   |-> verdict.allowed,
                       code      |-> verdict.code,
                       seen      |-> expiredSeen]]
        /\ expiredSeen' = IF verdict.code = DENY_PCCAP_EXPIRED THEN {Tok} ELSE expiredSeen
        /\ UNCHANGED <<tokens, used, now, nextId, calls, hist, signedAs>>

\* restored = PCCapToken.from_dict(token.to_dict()), then restored.to_dict()
\* and keyring.verify on both
ApplyRoundTrip ==
    /\ res' = [Cleared EXCEPT !["c1"] =
                  [op       |-> "round_trip",
                   tok      |-> Tok,
                   dict     |-> to_dict(Tok, TRUE),
                   restored |-> from_dict(to_dict(Tok, TRUE)),
                   again    |-> to_dict(from_dict(to_dict(Tok, TRUE)), TRUE),
                   verified |-> verify(Secret, Tok),
                   verified_restored |-> verify(Secret, from_dict(to_dict(Tok, TRUE)))]]
    /\ UNCHANGED <<tokens, used, now, nextId, calls, hist, signedAs, expiredSeen>>

NextTok ==
    \/ Tick
    \/ \E f \in Fields : \E v \in FieldValues(f) : SetField(f, v)
    \/ ApplyVerify
    \/ ApplyRoundTrip
    \/ \E a \in Asks : ApplyEnforce(a[1], a[2], a[3])

SpecTok == InitTok /\ [][NextTok]_vars

----------------------------------------------------------------------------
(* Properties of the token, the keyring and enforce_pccap *)

\* the token is exactly what the engine's keyring signed
Genuine(token) ==
    /\ Orig.signature = Some(sign(Secret, Orig))
    /\ token = Orig

Enforced(c) == res[c].op = "enforce"
RequestMatches(r) == matches_request(r.tok.scope, r.tool_name, r.arguments).matches

\* C5: once the clock has reached a token's expires_at, enforce_pccap denies it
\* with the expired code whatever its signature, its principal and its scope
\* are, and (the clock never going back) a token value that was denied as
\* expired is not allowed afterwards.
C5_ExpiryMonotone ==
    \A c \in Callers : Enforced(c) =>
        /\ res[c].at >= res[c].tok.expires_at =>
               (~res[c].allowed /\ res[c].code = DENY_PCCAP_EXPIRED)
        /\ res[c].allowed => res[c].tok \notin res[c].seen

\* an expired token with a signature that does not verify, presented by another
\* principal for a request outside its scope, denied as expired
C5_Witness ==
    \E c \in Callers :
        /\ Enforced(c)
        /\ res[c].code = DENY_PCCAP_EXPIRED
        /\ ~Genuine(res[c].tok)
        /\ res[c].tok.principal_sub /= res[c].principal
        /\ ~RequestMatches(res[c])
        /\ res[c].tok \in res[c].seen

\* C6: enforce_pccap returns the code of the first failing check in the order
\* expiry, signature, principal binding, scope, and the valid code (with
\* allowed = true) only when all four pass.
C6_FirstFailingCheck ==
    \A c \in Callers : Enforced(c) =>
        LET r == res[c] IN
        /\ r.code = IF r.at >= r.tok.expires_at THEN DENY_PCCAP_EXPIRED
                    ELSE IF ~Genuine(r.tok) THEN DENY_PCCAP_SIGNATURE_INVALID
                    ELSE IF r.tok.principal_sub /= r.principal
                         THEN DENY_PCCAP_PRINCIPAL_MISMATCH
                    ELSE IF ~RequestMatches(r) THEN DENY_PCCAP_SCOPE_MISMATCH
                    ELSE ALLOW_PCCAP_VALID
        /\ r.allowed <=> (r.code = ALLOW_PCCAP_VALID)

\* a live token with a bad signature whose principal and scope mismatch too
C6_Witness ==
    \E c \in Callers :
        /\ Enforced(c)
        /\ res[c].code = DENY_PCCAP_SIGNATURE_INVALID
        /\ res[c].tok.principal_sub /= res[c].principal
        /\ ~RequestMatches(res[c])

\* C7: for a token signed by the engine's keyring whose stored signature is
\* left alone, verify is true exactly when every signed field has the value
\* that was signed: assigning a different value to any signed field makes it
\* false and assigning the signed value back makes it true again.
C7_TamperDetected ==
    \A c \in Callers :
        (/\ res[c].op = "verify"
         /\ Orig.signature = Some(sign(Secret, Orig))
         /\ res[c].tok.signature = Orig.signature) =>
            (res[c].result <=> \A f \in SignedFields : res[c].tok[f] = Orig[f])

\* verify is true again after a field was assigned to and assigned back
C7_Witness ==
    \E c \in Callers :
        /\ res[c].op = "verify"
        /\ Orig.signature = Some(sign(Secret, Orig))
        /\ res[c].result
        /\ hist[TheId] = 2

----------------------------------------------------------------------------
(* Properties of the adapter *)

Returns(c) == res[c].op = "evaluate"
ById(r) == ~no_token_id(r.req) /\ r.tok /= None
Stored(token) == \E i \in 1..Len(tokens) : tokens[i] = token
Matches(r) ==
    matches_request(r.tok[1].scope, r.req.tool_name, r.req.arguments).matches
Bound(r) == r.tok[1].principal_sub = r.req.principal
LiveAtEnforce(r) == r.enfAt /= None /\ r.enfAt[1] < r.tok[1].expires_at
BadSignature(r) == r.tok[1].signature /= Some(sign(Secret, r.tok[1]))
AsMinted(r) ==
    /\ r.tok[1].token_id \in DOMAIN signedAs
    /\ signedAs[r.tok[1].token_id].token = r.tok[1]
    /\ r.tok[1].signature = Some(sign(Secret, r.tok[1]))

\* C1: whenever evaluate_with_pccap (with or without a token id) returns allow,
\* it does so with a token of the issued map that, at the clock value enforce
\* read during this very call, was unexpired, carries a signature that verifies
\* under the engine's keyring, is bound to the calling principal and has a
\* scope that matches the request.
C1_AllowIsSound ==
    \A c \in Callers : (Returns(c) /\ res[c].allowed) =>
        LET r == res[c] IN
        /\ r.tok /= None
        /\ Stored(r.tok[1])
        /\ r.enfAt /= None
        /\ r.startAt <= r.enfAt[1]
        /\ r.enfAt[1] < r.tok[1].expires_at
        /\ r.tok[1].signature = Some(sign(Secret, r.tok[1]))
        /\ Bound(r)
        /\ Matches(r)
        /\ r.code = ALLOW_PCCAP_VALID

\* an allow found by auto-discovery
C1_Witness ==
    \E c \in Callers : Returns(c) /\ res[c].allowed /\ res[c].req.token_id = None

\* C2: for a single-use token presented by id with a matching request from the
\* bound principal, live and correctly signed: the call is allowed with the
\* valid code when no earlier call was allowed with the token, every call after
\* an allowed one is denied with the replay code, and so at most one is allowed.
C2_SingleUseOnce ==
    /\ \A c \in Callers :
         (/\ Returns(c) /\ ById(res[c]) /\ res[c].tok[1].single_use
          /\ AsMinted(res[c]) /\ Bound(res[c]) /\ Matches(res[c])) =>
            LET r == res[c] IN
            /\ r.allowsBefore = 0 => r.enfAt /= None
            /\ (r.allowsBefore = 0 /\ LiveAtEnforce(r)) =>
                   (r.allowed /\ r.code = ALLOW_PCCAP_VALID)
            /\ r.allowsBefore >= 1 => (~r.allowed /\ r.code = DENY_PCCAP_REPLAY)
    /\ \A i \in 1..Len(tokens) : tokens[i].single_use => hist[tokens[i].token_id] <= 1

\* the second presentation of a consumed token, denied as a replay
C2_Witness ==
    \E c \in Callers :
        /\ Returns(c) /\ ById(res[c]) /\ res[c].tok[1].single_use
        /\ AsMinted(res[c]) /\ Bound(res[c]) /\ Matches(res[c])
        /\ res[c].allowsBefore = 1 /\ res[c].code = DENY_PCCAP_REPLAY
        /\ res[c].startAt < res[c].tok[1].expires_at

\* C4: for a multi-use token presented by id with a matching request from the
\* bound principal, every call made while the token is unexpired is allowed
\* with the valid code, however many were allowed before, and the token id is
\* never put in the consumed set.
C4_MultiUseRepeats ==
    /\ \A c \in Callers :
         (/\ Returns(c) /\ ById(res[c]) /\ ~res[c].tok[1].single_use
          /\ AsMinted(res[c]) /\ Bound(res[c]) /\ Matches(res[c])) =>
            LET r == res[c] IN
            /\ r.enfAt /= None
            /\ LiveAtEnforce(r) => (r.allowed /\ r.code = ALLOW_PCCAP_VALID)
            /\ r.endUsed = r.startUsed
    /\ \A i \in 1..Len(tokens) : ~tokens[i].single_use => tokens[i].token_id \notin used

\* the third allow in a row with one multi-use token
C4_Witness ==
    \E c \in Callers :
        /\ Returns(c) /\ ById(res[c]) /\ ~res[c].tok[1].single_use
        /\ res[c].allowed /\ res[c].allowsBefore = 2

\* C8 as claimed: for an unexpired stored token whose signature does not verify
\* under the engine's keyring, evaluate presenting its id returns the
\* signature-invalid code and does not consume the token.
C8_BadSignatureDenied ==
    \A c \in Callers :
        (/\ Returns(c) /\ ById(res[c])
         /\ BadSignature(res[c])
         /\ res[c].startAt < res[c].tok[1].expires_at) =>
            /\ ~res[c].allowed
            /\ res[c].code = DENY_PCCAP_SIGNATURE_INVALID
            /\ res[c].endUsed = res[c].startUsed

\* C8 amended: ... unless the token is a single-use token whose id is already
\* in the consumed set, which is denied with the replay code before the
\* signature is looked at; in neither case is the consumed set changed.
C8_BadSignatureDeniedUnlessConsumed ==
    \A c \in Callers :
        (/\ Returns(c) /\ ById(res[c])
         /\ BadSignature(res[c])
         /\ res[c].startAt < res[c].tok[1].expires_at) =>
            LET r == res[c]
                consumed == r.tok[1].single_use /\ r.tok[1].token_id \in r.startUsed
            IN  /\ ~r.allowed
                /\ r.code = IF consumed THEN DENY_PCCAP_REPLAY
                            ELSE DENY_PCCAP_SIGNATURE_INVALID
                /\ r.endUsed = r.startUsed

\* a token whose expiry was extended after signing, denied for its signature
C8_Witness ==
    \E c \in Callers :
        /\ Returns(c) /\ ById(res[c])
        /\ res[c].code = DENY_PCCAP_SIGNATURE_INVALID
        /\ res[c].tok[1].token_id \in DOMAIN signedAs
        /\ res[c].tok[1].expires_at /= signedAs[res[c].tok[1].token_id].token.expires_at
        /\ Bound(res[c]) /\ Matches(res[c])

\* the token the scenario mints: fs.delete under /tmp/scratch for the agent,
\* every other parameter of mint at its default
ScenarioToken(r) ==
    /\ AsMinted(r)
    /\ r.tok[1].scope = ScratchScope
    /\ r.tok[1].principal_sub = Agent
    /\ r.tok[1].single_use
    /\ signedAs[r.tok[1].token_id].ttl = DefaultTtl

\* C9: on one engine, after minting the scenario's token, evaluate by its id
\* with path=/tmp/scratch/file.txt is allowed with the valid code and a
\* following evaluate by the same id with path=/etc/passwd is denied with the
\* scope-mismatch code.
C9_ScenarioSequence ==
    \A c \in Callers :
        (/\ Returns(c) /\ ById(res[c]) /\ ScenarioToken(res[c])
         /\ res[c].req.principal = Agent /\ res[c].req.tool_name = "fs.delete"
         /\ res[c].startAt < res[c].tok[1].expires_at) =>
            LET r == res[c] IN
            /\ (r.req.arguments = [path |-> ScratchFile] /\ r.allowsBefore = 0) =>
                   (r.allowed /\ r.code = ALLOW_PCCAP_VALID)
            /\ (r.req.arguments = [path |-> EtcPasswd] /\ r.allowsBefore = 1) =>
                   (~r.allowed /\ r.code = DENY_PCCAP_SCOPE_MISMATCH)

\* C10: a token minted with ttl_seconds = 0 and presented by id at any clock
\* value later than its minting is denied with the expired code.
C10_ZeroTtlExpired ==
    \A c \in Callers :
        (/\ Returns(c) /\ ById(res[c]) /\ AsMinted(res[c])
         /\ signedAs[res[c].tok[1].token_id].ttl = 0
         /\ res[c].startAt > res[c].tok[1].issued_at) =>
            (~res[c].allowed /\ res[c].code = DENY_PCCAP_EXPIRED)

\* such a presentation, with a request the token's scope matches
C10_Witness ==
    \E c \in Callers :
        /\ Returns(c) /\ ById(res[c]) /\ AsMinted(res[c])
        /\ signedAs[res[c].tok[1].token_id].ttl = 0
        /\ res[c].startAt > res[c].tok[1].issued_at
        /\ Bound(res[c]) /\ Matches(res[c])
        /\ res[c].code = DENY_PCCAP_EXPIRED

\* the two callers have returned from calls that presented the same single-use
\* token by id, genuine, bound to the caller, matching the request and live
SameTokenCalls(c, d) ==
    /\ c /= d /\ Returns(c) /\ Returns(d)
    /\ ById(res[c]) /\ ById(res[d])
    /\ res[c].tok = res[d].tok
    /\ res[c].tok[1].single_use
    /\ AsMinted(res[c])
    /\ Bound(res[c]) /\ Matches(res[c]) /\ Bound(res[d]) /\ Matches(res[d])
    /\ now < res[c].tok[1].expires_at

\* C3: when evaluate calls presenting the same live, valid single-use token run
\* with their steps interleaved, exactly one of them is allowed and every other
\* one is denied with the replay code.
C3_OneConcurrentAllow ==
    /\ \A i \in 1..Len(tokens) : tokens[i].single_use => hist[tokens[i].token_id] <= 1
    /\ \A c, d \in Callers : SameTokenCalls(c, d) =>
           /\ ~(res[c].allowed /\ res[d].allowed)
           /\ res[c].allowed => res[d].code = DENY_PCCAP_REPLAY

----------------------------------------------------------------------------
(* Lookup by id and auto-discovery *)

\* C11 as claimed: whenever a token id is supplied and it is not in the issued
\* map, evaluate returns the not-found code and leaves the consumed set as it
\* was.
C11_NotFoundForAnyId ==
    \A c \in Callers :
        (/\ Returns(c)
         /\ res[c].req.token_id /= None
         /\ res[c].req.token_id[1] \notin StoredIds) =>
            /\ ~res[c].allowed
            /\ res[c].code = DENY_PCCAP_NOT_FOUND
            /\ res[c].endUsed = res[c].startUsed

\* the lookup of a non-empty id: absent gives not-found with the consumed set
\* untouched, present gives the call the stored token of that id
NonEmptyIdLookedUp ==
    \A c \in Callers : (Returns(c) /\ ~no_token_id(res[c].req)) =>
        LET r == res[c] IN
        IF r.req.token_id[1] \notin StoredIds
        THEN /\ ~r.allowed
             /\ r.code = DENY_PCCAP_NOT_FOUND
             /\ r.endUsed = r.startUsed
             /\ used = r.startUsed
        ELSE /\ r.tok = store_get(tokens, r.req.token_id[1])
             /\ r.code /= DENY_PCCAP_NOT_FOUND

\* a step that ends an evaluate with the not-found code changes neither the
\* issued map nor the consumed set
NotFoundChangesNothing ==
    \A c \in Callers :
        (res'[c].op = "evaluate" /\ res'[c].code = DENY_PCCAP_NOT_FOUND) =>
            (tokens' = tokens /\ used' = used)

\* C11 amended: whenever a non-empty token id is supplied to evaluate, the id
\* is looked up in the issued map; if it is absent the call returns deny with
\* the not-found code and leaves the issued map and the consumed set unchanged.
\* (An empty id is treated as no id at all.)
C11_NotFoundForNonEmptyId ==
    []NonEmptyIdLookedUp /\ [][NotFoundChangesNothing]_vars

\* the id of a token that was minted and then removed, answered with not-found
C11_Witness ==
    \E c \in Callers :
        /\ Returns(c) /\ res[c].code = DENY_PCCAP_NOT_FOUND
        /\ res[c].req.token_id = Some(generate_token_id(1))
        /\ nextId >= 1
        /\ tokens /= <<>>

\* the stored token is one the call can use: bound to the caller, unexpired
\* when the tokens were listed, not consumed, with a scope that matches the
\* request, and passing enforce_pccap at clock value t
Qualifies(token, r, t) ==
    /\ token.principal_sub = r.req.principal
    /\ r.startAt < token.expires_at
    /\ token.token_id \notin r.startUsed
    /\ matches_request(token.scope, r.req.tool_name, r.req.arguments).matches
    /\ enforce_pccap(r.req.principal, r.req.tool_name, r.req.arguments,
                     token, Secret, t).allowed

NoTokenWhenNoneQualifies ==
    \A c \in Callers :
        (/\ Returns(c) /\ no_token_id(res[c].req)
         /\ ~\E i \in 1..Len(tokens) : Qualifies(tokens[i], res[c], now)) =>
            /\ ~res[c].allowed
            /\ res[c].code = DENY_NO_PCCAP
            /\ res[c].endUsed = res[c].startUsed
            /\ used = res[c].startUsed

NoTokenChangesNothing ==
    \A c \in Callers :
        (res'[c].op = "evaluate" /\ res'[c].code = DENY_NO_PCCAP) =>
            (tokens' = tokens /\ used' = used)

\* C12: evaluate without a token id returns deny with the no-token code
\* whenever the principal has no active, unconsumed token whose scope matches
\* the request and whose enforce check succeeds, and then changes neither the
\* issued map nor the consumed set.
C12_NoTokenCode ==
    []NoTokenWhenNoneQualifies /\ [][NoTokenChangesNothing]_vars

\* the no-token code although the principal holds a token whose scope matches
\* the request (it is consumed, expired, or its signature is bad)
C12_Witness ==
    \E c \in Callers :
        /\ Returns(c) /\ res[c].req.token_id = None
        /\ res[c].code = DENY_NO_PCCAP
        /\ \E i \in 1..Len(tokens) :
               /\ tokens[i].principal_sub = res[c].req.principal
               /\ matches_request(tokens[i].scope, res[c].req.tool_name,
                                  res[c].req.arguments).matches
               /\ ~verify(Secret, tokens[i])

----------------------------------------------------------------------------
(* Totality *)

Codes ==
    { ALLOW_PCCAP_VALID, DENY_PCCAP_EXPIRED, DENY_PCCAP_SIGNATURE_INVALID,
      DENY_PCCAP_PRINCIPAL_MISMATCH, DENY_PCCAP_SCOPE_MISMATCH, DENY_PCCAP_REPLAY,
      DENY_PCCAP_NOT_FOUND, DENY_NO_PCCAP }

\* C13: every enforce call and every evaluate call ends with one verdict whose
\* code is one of the fixed codes, allowed being true exactly for the valid
\* code; no call is left by an exception.
C13_Total ==
    \A c \in Callers : (Returns(c) \/ Enforced(c)) =>
        /\ res[c].code \in Codes
        /\ res[c].allowed <=> (res[c].code = ALLOW_PCCAP_VALID)

----------------------------------------------------------------------------
(* Properties of PCCapScope.matches_request *)

MatchesApplied(c) == res[c].op = "matches"

\* C14: for every scope and every request whose tool name differs from the
\* scope's, matches_request returns (false, tool-mismatch reason), whatever the
\* arguments and the scope's other constraints are.
C14_ToolMismatch ==
    \A c \in Callers :
        (MatchesApplied(c) /\ res[c].tool_name /= res[c].scope.tool_name) =>
            res[c].result = Matched(FALSE, Some("tool mismatch"))

\* a tool mismatch on a request that every other constraint would reject or
\* fault on
C14_Witness ==
    \E c \in Callers :
        /\ MatchesApplied(c)
        /\ res[c].tool_name /= res[c].scope.tool_name
        /\ res[c].scope.path_prefix /= None
        /\ res[c].arguments = [path |-> EtcPasswd, content |-> Str(<<0>>)]

\* where a path without ".." segments leads: the components below the root,
\* a relative path being taken from the working directory
Resolved(path) ==
    SelectSeq(IF path[1] = "" /\ Len(path) > 1 THEN path ELSE Cwd \o path,
              LAMBDA seg : seg /= "" /\ seg /= ".")

IsPrefixOf(a, b) == Len(a) <= Len(b) /\ SubSeq(b, 1, Len(a)) = a

PathKeys == <<"path", "file_path", "target">>

\* the value under the first of the keys path, file_path, target that the
\* request carries
FirstPresent(arguments) ==
    LET present == SelectSeq(PathKeys, LAMBDA key : key \in DOMAIN arguments)
    IN  IF present = <<>> THEN None ELSE Some(arguments[present[1]])

PathRejected(result) ==
    /\ ~result.matches
    /\ result.reason \in {Some("path traversal detected"),
                          Some("path not under allowed prefix")}

----------------------------------------------------------------------------
(* Properties of PCCapStore *)

IdsOf(toks) == {toks[i].token_id : i \in 1..Len(toks)}

TokensOf(toks) == {toks[i] : i \in 1..Len(toks)}

Did(c, op) == res[c].op = op

\* C16: after revoke(id) returns, from any reachable store state, id is in
\* neither the issued map nor the consumed set; revoke returns true exactly
\* when id was in the issued map; a second revoke(id) returns false and
\* changes nothing.
C16_RevokeRemovesBoth ==
    \A c \in Callers :
        Did(c, "revoke") =>
            /\ res[c].token_id \notin StoredIds
            /\ res[c].token_id \notin used
            /\ res[c].ret = (res[c].token_id \in IdsOf(res[c].tokens_before))
            /\ res[c].again =>
                   /\ ~res[c].ret
                   /\ tokens = res[c].tokens_before
                   /\ used = res[c].used_before

\* C17: mark_used(id) returns true and adds id to the consumed set when id is
\* not yet in it, returns false and leaves the consumed set unchanged when id
\* is already in it, and never changes the issued map; is_used(id) is true
\* exactly for the ids in the consumed set.
C17_MarkUsed ==
    \A c \in Callers :
        /\ Did(c, "mark_used") =>
               /\ tokens = res[c].tokens_before
               /\ IF res[c].token_id \in res[c].used_before
                  THEN ~res[c].ret /\ used = res[c].used_before
                  ELSE res[c].ret /\ used = res[c].used_before \cup {res[c].token_id}
        /\ Did(c, "is_used") => (res[c].ret <=> res[c].token_id \in used)

\* a second mark_used of a stored token's id was refused
C17_Witness ==
    \E c \in Callers :
        /\ Did(c, "mark_used")
        /\ res[c].token_id \in StoredIds
        /\ res[c].token_id \in res[c].used_before
        /\ ~res[c].ret

PassedAt(toks, t) == {tk \in TokensOf(toks) : tk.expires_at <= t}

\* C18: after cleanup_expired(now) returns k, no token with expires_at <= now
\* is left in the issued map, none of the removed ids is left in the consumed
\* set, and k is the number of tokens that were in the issued map with
\* expires_at <= now before the call.
C18_CleanupRemovesExpired ==
    \A c \in Callers :
        Did(c, "cleanup_expired") =>
            /\ PassedAt(tokens, res[c].at) = {}
            /\ (IdsOf(res[c].tokens_before) \ StoredIds) \cap used = {}
            /\ res[c].ret = Cardinality(PassedAt(res[c].tokens_before, res[c].at))

\* one expired, consumed token and one valid token: the count is 1 and only
\* the expired id is gone
C18_Witness ==
    \E c \in Callers :
        /\ Did(c, "cleanup_expired")
        /\ Len(res[c].tokens_before) = 2
        /\ res[c].ret = 1
        /\ Len(tokens) = 1
        /\ (IdsOf(res[c].tokens_before) \ StoredIds) \subseteq res[c].used_before

\* C19: cleanup_expired(now) leaves every token with expires_at > now as it
\* was: in the issued map with the same value, and in the consumed set exactly
\* if it was there before.
C19_CleanupKeepsValid ==
    \A c \in Callers :
        Did(c, "cleanup_expired") =>
            \A tk \in TokensOf(res[c].tokens_before) :
                tk.expires_at > res[c].at =>
                    /\ store_get(tokens, tk.token_id) = Some(tk)
                    /\ (tk.token_id \in used) <=> (tk.token_id \in res[c].used_before)

\* a cleanup that removed an expired token while a valid, consumed one stayed
C19_Witness ==
    \E c \in Callers :
        /\ Did(c, "cleanup_expired")
        /\ res[c].ret = 1
        /\ \E tk \in TokensOf(res[c].tokens_before) :
               /\ tk.expires_at > res[c].at
               /\ tk.token_id \in res[c].used_before
               /\ tk.token_id \in used

\* C20: list_for_principal(sub) returns exactly the tokens of the issued map
\* bound to sub, unexpired at the current time and not in the consumed set,
\* each once, and changes no store state.
C20_ListExact ==
    \A c \in Callers :
        Did(c, "list_for_principal") =>
            /\ TokensOf(res[c].ret) =
                   {tk \in TokensOf(tokens) : /\ tk.principal_sub = res[c].principal_sub
                                              /\ tk.expires_at > res[c].at
                                              /\ tk.token_id \notin used}
            /\ Cardinality(TokensOf(res[c].ret)) = Len(res[c].ret)
            /\ tokens = res[c].tokens_before
            /\ used = res[c].used_before

\* a listing that returned one token and left out a consumed one and another
\* principal's
C20_Witness ==
    \E c \in Callers :
        /\ Did(c, "list_for_principal")
        /\ Len(res[c].ret) = 1
        /\ Len(tokens) = 2
        /\ used /= {}

----------------------------------------------------------------------------
(* Properties of PCCapPolicyEngine.mint *)

\* C21: after mint(principal, scope, issued_by, ttl_seconds, policy_id,
\* single_use) returns T: T's id was not in the issued map, T.principal_sub is
\* the principal's sub, T.issued_at = now, T.expires_at = now + ttl_seconds, T
\* verifies under the engine's keyring, get(T.token_id) returns T, T's id is
\* not in the consumed set, and no other token's entry or consumed status
\* has changed.
C21_MintPost ==
    \A c \in Callers :
        Did(c, "mint") =>
            LET T == res[c].token IN
            /\ T.token_id \notin IdsOf(res[c].tokens_before)
            /\ T.principal_sub = res[c].principal
            /\ T.issued_at = res[c].at
            /\ T.expires_at = res[c].at + res[c].ttl_seconds
            /\ verify(Secret, T)
            /\ store_get(tokens, T.token_id) = Some(T)
            /\ T.token_id \notin used
            /\ \A tk \in TokensOf(res[c].tokens_before) :
                   store_get(tokens, tk.token_id) = Some(tk)
            /\ used = res[c].used_before

\* a mint with a lifetime other than the default, while another token is
\* stored and consumed
C21_Witness ==
    \E c \in Callers :
        /\ Did(c, "mint")
        /\ res[c].ttl_seconds /= DefaultTtl
        /\ res[c].tokens_before /= <<>>
        /\ res[c].used_before /= {}

\* C22 as stated: every token in the issued map, after any sequence of mint
\* calls with any accepted ttl_seconds, has expires_at > issued_at.
C22_ExpiresAfterIssued ==
    \A tk \in TokensOf(tokens) : tk.expires_at > tk.issued_at

\* C22: every token in the issued map has expires_at = issued_at + the
\* ttl_seconds it was minted with, whatever number that is, so that
\* expires_at > issued_at holds exactly for the tokens minted with
\* ttl_seconds > 0.
C22_ExpiresAtIssuedPlusTtl ==
    \A tk \in TokensOf(tokens) :
        /\ tk.expires_at = tk.issued_at + signedAs[tk.token_id].ttl
        /\ (tk.expires_at > tk.issued_at) <=> (signedAs[tk.token_id].ttl > 0)

\* the issued map holds a token minted with ttl_seconds = 0 and one minted
\* with a positive ttl_seconds
C22_Witness ==
    /\ \E tk \in TokensOf(tokens) : signedAs[tk.token_id].ttl = 0
    /\ \E tk \in TokensOf(tokens) : signedAs[tk.token_id].ttl > 0
    /\ now > 0

----------------------------------------------------------------------------
(* Properties of PCCapToken.to_dict / from_dict *)

\* C23 as stated: for every token T, signed or unsigned, from_dict(to_dict(T))
\* has the same value in every field as T, re-serializing it gives the same
\* mapping, and verify gives the same result on it as on T.
C23_RoundTrip ==
    \A c \in Callers :
        Did(c, "round_trip") =>
            /\ \A f \in Fields : res[c].restored[f] = res[c].tok[f]
            /\ res[c].again = res[c].dict
            /\ res[c].verified_restored = res[c].verified

\* C23: for every token T, from_dict(to_dict(T)) has the same value as T in
\* every field, except that a signature that is the empty string comes back
\* as null; re-serializing it gives the same mapping, and verify gives the
\* same result on it as on T.
C23_RoundTripButEmptySignature ==
    \A c \in Callers :
        Did(c, "round_trip") =>
            /\ \A f \in Fields \ {"signature"} : res[c].restored[f] = res[c].tok[f]
            /\ res[c].restored.signature =
                   (IF res[c].tok.signature = Some("") THEN None ELSE res[c].tok.signature)
            /\ res[c].again = res[c].dict
            /\ res[c].verified_restored = res[c].verified

\* a round trip of a token whose signature is the empty string
C23_Witness ==
    \E c \in Callers :
        /\ Did(c, "round_trip")
        /\ res[c].tok.signature = Some("")
        /\ res[c].restored.signature = None

----------------------------------------------------------------------------
(* Properties of a token's life *)

\* C24: once a single-use token has satisfied one successful evaluate, no
\* later sequence of mint, evaluate, revoke, cleanup, store of the same token
\* and mark_used lets an evaluate presenting that token id return allow again.
C24_ConsumptionIrrevocable ==
    \A c \in Callers :
        (/\ Returns(c) /\ ById(res[c])
         /\ res[c].tok[1].single_use
         /\ res[c].allowsBefore >= 1) => ~res[c].allowed

----------------------------------------------------------------------------
(* Frame of evaluate_with_pccap *)

EvaluateFrame ==
    \A c \in Callers :
        res'[c].op = "evaluate" =>
            /\ tokens' = tokens
            /\ used' = IF res'[c].allowed /\ res'[c].tok[1].single_use
                       THEN used \cup {res'[c].tok[1].token_id}
                       ELSE used

\* C25: an evaluate call never changes the issued map; it changes the
\* consumed set only by adding the id of the single-use token it returns allow
\* with; an evaluate that returns deny, with any code, and an allow with a
\* multi-use token leave the issued map and the consumed set as they were.
C25_EvaluateFrame == [][EvaluateFrame]_vars

\* a stored, unconsumed single-use token presented by id and denied on scope,
\* still unconsumed
C25_Witness ==
    \E c \in Callers :
        /\ Returns(c) /\ ById(res[c])
        /\ res[c].code = DENY_PCCAP_SCOPE_MISMATCH
        /\ res[c].tok[1].single_use
        /\ Stored(res[c].tok[1])
        /\ res[c].tok[1].token_id \notin used
        /\ used /= {}

----------------------------------------------------------------------------
(* Order of the checks *)

\* C26: in every evaluate call, with a token id or without, the scope of a
\* token is matched against the request only after that token has passed the
\* expiry check and the signature check: matches_request never runs on a
\* token that is expired or whose signature does not verify.
C26_ScopeAfterChecks ==
    \A c \in Callers :
        Returns(c) =>
            \A tk \in res[c].scoped :
                /\ tk.signature = Some(sign(Secret, tk))
                /\ res[c].startAt < tk.expires_at

----------------------------------------------------------------------------
(* Completeness of auto-discovery *)

\* the token would carry the request of r: bound to its principal, unexpired,
\* unconsumed, signed by the engine's keyring, with a matching scope
Carries(token, r) ==
    /\ token.principal_sub = r.req.principal
    /\ now < token.expires_at
    /\ ~(token.single_use /\ token.token_id \in used)
    /\ token.signature = Some(sign(Secret, token))
    /\ matches_request(token.scope, r.req.tool_name, r.req.arguments).matches

\* C27: whenever the principal holds an active, unconsumed token whose scope
\* matches the request and whose enforce check succeeds, evaluate without a
\* token id returns allow, with the first such token in the store's order,
\* also when another evaluate call runs at the same time and consumes another
\* candidate.
C27_AutoDiscoveryComplete ==
    \A c \in Callers :
        (/\ Returns(c) /\ no_token_id(res[c].req)
         /\ \E i \in 1..Len(tokens) : Carries(tokens[i], res[c])) =>
            res[c].allowed

\* C28: for a scope with path_prefix set, the path matches_request checks is
\* the value under the first of the keys path, file_path, target that the
\* request carries: when that value is empty, has a ".." segment or leads
\* outside the prefix, the request is not accepted, whatever a later key holds.
C28_FirstPresentKey ==
    \A c \in Callers :
        (/\ MatchesApplied(c)
         /\ res[c].scope.path_prefix /= None
         /\ res[c].tool_name = res[c].scope.tool_name
         /\ FirstPresent(res[c].arguments) /= None) =>
            LET path   == FirstPresent(res[c].arguments)[1]
                prefix == res[c].scope.path_prefix[1]
            IN  (\/ path = EmptyStr
                 \/ \E i \in 1..Len(path) : path[i] = ".."
                 \/ ~IsPrefixOf(Resolved(prefix), Resolved(path))) =>
                    ~res[c].result.matches

\* the content and data arguments a request supplies
Supplied(arguments) == {arguments[k] : k \in {"content", "data"} \cap DOMAIN arguments}

\* C29: for a scope with max_bytes set and a request with the scoped tool
\* name, matches_request rejects the request whenever it supplies a content or
\* a data argument whose size in bytes (raw length for bytes, UTF-8 encoded
\* length otherwise) exceeds max_bytes, and does not reject on size when every
\* supplied content or data argument has a size of at most max_bytes.
C29_MaxBytes ==
    \A c \in Callers :
        (/\ MatchesApplied(c)
         /\ res[c].scope.max_bytes /= None
         /\ res[c].tool_name = res[c].scope.tool_name
         /\ \A v \in Supplied(res[c].arguments) : encodes(v)) =>
            IF \E v \in Supplied(res[c].arguments) :
                   size_bytes(v) > res[c].scope.max_bytes[1]
            THEN ~res[c].result.matches
            ELSE res[c].result.reason /= Some("content exceeds max_bytes")

----------------------------------------------------------------------------
(* A sweep among other calls *)

\* C30: a cleanup_expired sweep whose steps interleave with mint, get and
\* evaluate calls of another caller completes normally, removes only tokens
\* with expires_at <= its now, never removes or loses a token minted during
\* the sweep, and returns the number of tokens it removed.
C30_SweepCompletes ==
    \A c \in Callers :
        Did(c, "sweep") =>
            /\ res[c].raised = None
            /\ \A tk \in TokensOf(res[c].tokens_before) :
                   tk.expires_at > res[c].at => Stored(tk)
            /\ \A tk \in res[c].minted : Stored(tk)
            /\ res[c].ret = Some(Cardinality(IdsOf(res[c].tokens_before) \ StoredIds))

----------------------------------------------------------------------------
(* Revocation *)

\* the id was handed out by mint and is not in the issued map: it was revoked
\* (or swept, if expired) and no token has been stored under it since
Gone(id) == id \in DOMAIN signedAs /\ id \notin StoredIds

\* C31: once revoke(id) has returned true, and until a token is stored again
\* under id, every evaluate presenting id returns deny with the not-found
\* code, and no evaluate without a token id selects the token: it neither
\* matches its scope nor returns with it.
C31_RevokedUnusable ==
    \A c \in Callers :
        Returns(c) =>
            \A id \in TokenIds :
                Gone(id) =>
                    /\ res[c].req.token_id = Some(id) =>
                           /\ ~res[c].allowed
                           /\ res[c].code = DENY_PCCAP_NOT_FOUND
                    /\ no_token_id(res[c].req) =>
                           /\ \A tk \in res[c].scoped : tk.token_id /= id
                           /\ res[c].tok /= None => res[c].tok[1].token_id /= id

\* a token that had been allowed with, still unexpired (so no sweep removed
\* it), revoked, and then presented by id: not found
C31_Witness ==
    \E c \in Callers :
        /\ Returns(c)
        /\ res[c].req.token_id /= None
        /\ res[c].req.token_id[1] \in TokenIds
        /\ Gone(res[c].req.token_id[1])
        /\ now < signedAs[res[c].req.token_id[1]].token.expires_at
        /\ hist[res[c].req.token_id[1]] >= 1
        /\ res[c].code = DENY_PCCAP_NOT_FOUND

----------------------------------------------------------------------------
(* The consumed set and the issued map *)

\* C32: in every state reachable through mint, evaluate, revoke and cleanup,
\* also when a revoke or a cleanup lands between the steps of a running
\* evaluate, every id in the consumed set is a key of the issued map.
C32_ConsumedAreIssued == used \subseteq StoredIds

----------------------------------------------------------------------------
(* Outcomes of evaluate without a token id *)

\* the tokens list_for_principal gave the call of r
Listed(r) ==
    {tk \in TokensOf(tokens) : /\ tk.principal_sub = r.req.principal
                               /\ r.startAt < tk.expires_at
                               /\ tk.token_id \notin r.startUsed}

\* C33: evaluate without a token id returns allow with the valid code, deny
\* with the replay code, or deny with the no-token code, and nothing else; a
\* candidate that matches the scope and fails enforce does not end the
\* search: the no-token code is returned only after every listed candidate
\* was tried.
C33_AutoOutcomes ==
    \A c \in Callers :
        (Returns(c) /\ no_token_id(res[c].req)) =>
            /\ \/ res[c].allowed /\ res[c].code = ALLOW_PCCAP_VALID
               \/ ~res[c].allowed /\ res[c].code = DENY_PCCAP_REPLAY
               \/ ~res[c].allowed /\ res[c].code = DENY_NO_PCCAP
            /\ res[c].code = DENY_NO_PCCAP => Listed(res[c]) \subseteq res[c].scoped

\* an allow with the second candidate, after a first one that matched the
\* scope and whose signature does not verify
C33_Witness ==
    \E c \in Callers :
        /\ Returns(c) /\ no_token_id(res[c].req)
        /\ res[c].allowed
        /\ \E tk \in res[c].scoped :
               /\ tk /= res[c].tok[1]
               /\ matches_request(tk.scope, res[c].req.tool_name,
                                  res[c].req.arguments).matches
               /\ tk.signature /= Some(sign(Secret, tk))

----------------------------------------------------------------------------
(* What evaluate without a token id allows with and consumes *)

\* C34: evaluate without a token id allows only with a token bound to the
\* calling principal; it adds at most one id to the consumed set, the id of
\* the single-use token it allowed with, and leaves the consumed status of
\* every other token as it was, also of tokens that match the request too.
C34_AutoConsumesOwnToken ==
    \A c \in Callers :
        (Returns(c) /\ no_token_id(res[c].req)) =>
            /\ res[c].allowed => res[c].tok[1].principal_sub = res[c].req.principal
            /\ used = res[c].endUsed
            /\ res[c].startUsed \subseteq used
            /\ used \ res[c].startUsed \subseteq
                   (IF res[c].allowed /\ res[c].tok[1].single_use
                    THEN {res[c].tok[1].token_id}
                    ELSE {})

\* an allow that consumed its single-use token, while another token of the
\* principal that matches the request too stays unconsumed
C34_Witness ==
    \E c \in Callers :
        /\ Returns(c) /\ no_token_id(res[c].req)
        /\ res[c].allowed
        /\ res[c].tok[1].single_use
        /\ res[c].tok[1].token_id \in used \ res[c].startUsed
        /\ \E tk \in TokensOf(tokens) :
               /\ tk /= res[c].tok[1]
               /\ tk.principal_sub = res[c].req.principal
               /\ matches_request(tk.scope, res[c].req.tool_name,
                                  res[c].req.arguments).matches
               /\ tk.token_id \notin used

----------------------------------------------------------------------------
(* A sweep among revokes and other sweeps *)

\* C35: a cleanup_expired call whose scan for expired ids has gone through
\* completes normally, without a fault, and returns its count, also when a
\* revoke or another cleanup_expired deletes one of the ids it found before
\* its deletion loop gets to it.
C35_SweepSurvivesRemoval ==
    \A c \in Callers :
        (Did(c, "sweep") /\ res[c].raised /= Some("RuntimeError")) =>
            /\ res[c].raised = None
            /\ res[c].ret /= None

----------------------------------------------------------------------------
(* Requests without a path *)

\* C36: evaluate never returns allow with a token whose scope has path_prefix
\* set for a request with the scoped tool name that carries no path,
\* file_path or target argument, or only empty values under those keys.
C36_NoEscapeByOmission ==
    \A c \in Callers :
        (/\ Returns(c) /\ res[c].allowed
         /\ res[c].tok[1].scope.path_prefix /= None
         /\ res[c].req.tool_name = res[c].tok[1].scope.tool_name) =>
            \E i \in 1..Len(PathKeys) :
                /\ PathKeys[i] \in DOMAIN res[c].req.arguments
                /\ res[c].req.arguments[PathKeys[i]] /= EmptyStr

====
